---- MODULE Spec2Model ----
(***************************************************************************)
(* Tensor: the review pipeline (reviewStep), the functions it composes,    *)
(* the schedulers it calls, and the Deck that stores its results.          *)
(*                                                                         *)
(* Numbers.  The program computes with IEEE doubles; the model computes    *)
(* with fixed-point integers that fit TLC's 32-bit integers:               *)
(*   - days (S, t, scheduled_t, now, due, intervals) in units of 1/DS day  *)
(*   - dimensionless values (probabilities, multipliers, weights,          *)
(*     difficulty, logarithms, exponentials) in units of 1/PS              *)
(* Every arithmetic step rounds down to that grid, so each operator below  *)
(* is monotone exactly where the real formula is.  Rounding to 8 fractional*)
(* digits (toFixed(8)) is finer than the grid and therefore does not show. *)
(* NaN is a value of its own and propagates as in JavaScript; Undefined    *)
(* stands for an absent optional field.                                    *)
(***************************************************************************)
EXTENDS Integers, Sequences, FiniteSets, TLC

PS == 1000 * 1000
DS == 100 * 100
NaN == 0 - 2147483647
Undefined == 0 - 2147483646

IsNaN(x) == x = NaN

\* The arithmetic is written as functions of integers: a function is applied
\* to the value of its argument.
Min[a \in Int, b \in Int] == IF a <= b THEN a ELSE b
Max[a \in Int, b \in Int] == IF a >= b THEN a ELSE b
\* Math.min / Math.max: NaN if either argument is NaN
MathMin[a \in Int, b \in Int] == IF IsNaN(a) \/ IsNaN(b) THEN NaN ELSE Min[a, b]
MathMax[a \in Int, b \in Int] == IF IsNaN(a) \/ IsNaN(b) THEN NaN ELSE Max[a, b]

\* a * b for a, b >= 0 in units of 1/PS: floor(a*b/PS), by three limbs of
\* 1000 so that no partial product leaves 32 bits
MulPS[a \in Int, b \in Int] ==
  LET a2 == a \div PS
      a1 == (a % PS) \div 1000
      a0 == a % 1000
      b2 == b \div PS
      b1 == (b % PS) \div 1000
      b0 == b % 1000
  IN  a2 * b2 * PS + (a2 * b1 + a1 * b2) * 1000
        + (a2 * b0 + a1 * b1 + a0 * b2)
        + (((a1 * b0 + a0 * b1) * 1000 + a0 * b0) \div PS)

\* signed product: a may be negative, b >= 0
SMulPS[a \in Int, b \in Int] == IF a >= 0 THEN MulPS[a, b] ELSE 0 - MulPS[0 - a, b]

\* NaN-propagating product
NMulPS[a \in Int, b \in Int] == IF IsNaN(a) \/ IsNaN(b) THEN NaN ELSE MulPS[a, b]

\* a * b saturated at cap (the caller clamps below cap afterwards)
SatMulPS[a \in Int, b \in Int, cap \in Int] ==
  IF b \div PS > 0 /\ a > cap \div (b \div PS) THEN cap ELSE MulPS[a, b]

\* n decimal digits of r / b, for 0 <= r < b
DivDigits[r \in Int, b \in Int, n \in Int] ==
  IF n = 0 THEN 0
  ELSE ((r * 10) \div b) * (10 ^ (n - 1)) + DivDigits[(r * 10) % b, b, n - 1]

\* a / b for a >= 0, b > 0: floor(a*PS/b) by long division
DivPS[a \in Int, b \in Int] == (a \div b) * PS + DivDigits[a % b, b, 6]

\* Math.exp(x), x >= 0: the Taylor series, summed until the terms vanish
ExpSum[term \in Int, x \in Int, k \in Int] ==
  IF term = 0 THEN 0 ELSE term + ExpSum[MulPS[term, x] \div k, x, k + 1]

ExpPos[x \in Int] == ExpSum[PS, x, 1]

\* Math.exp(x) for any x in reach: exp(-x) = 1 / exp(x)
Exp[x \in Int] == IF x >= 0 THEN ExpPos[x] ELSE DivPS[PS, ExpPos[0 - x]]

LN2 == 693147

Log2Floor[n \in Int] == IF n < 2 THEN 0 ELSE 1 + Log2Floor[n \div 2]

\* 2 atanh(z) for 0 <= z < 1/3, z2 = z * z
Atanh2[z \in Int, z2 \in Int] ==
  LET z3 == MulPS[z, z2]
      z5 == MulPS[z3, z2]
      z7 == MulPS[z5, z2]
      z9 == MulPS[z7, z2]
      z11 == MulPS[z9, z2]
  IN  2 * (z + z3 \div 3 + z5 \div 5 + z7 \div 7 + z9 \div 9 + z11 \div 11)

\* (m - 1) / (m + 1) for the mantissa m of n = m * 2^k, 1 <= m < 2, held in
\* 16 fractional bits
MantissaRatio[n \in Int, k \in Int] ==
  IF k >= 16 THEN DivPS[n \div (2 ^ (k - 16)) - 65536, n \div (2 ^ (k - 16)) + 65536]
  ELSE DivPS[n * (2 ^ (16 - k)) - 65536, n * (2 ^ (16 - k)) + 65536]

LnMantissa[z \in Int] == Atanh2[z, MulPS[z, z]]

\* ln(n) * PS for an integer n >= 1: n = m * 2^k with 1 <= m < 2 and
\* ln m = 2 atanh((m-1)/(m+1))
LnInt[n \in Int] ==
  Log2Floor[n] * LN2 + LnMantissa[MantissaRatio[n, Log2Floor[n]]]

\* Math.log(x) for x > 0 in units of 1/PS
Ln[x \in Int] == LnInt[x] - LnInt[PS]

\* exp(e * (la - lb)) for e >= 0
ExpLn[la \in Int, lb \in Int, e \in Int] ==
  IF la >= lb THEN Exp[MulPS[e, la - lb]] ELSE Exp[0 - MulPS[e, lb - la]]

\* Math.pow(a/b, e) for integers a, b >= 1 and an exponent e >= 0 (1/PS)
PowRatio[a \in Int, b \in Int, e \in Int] == ExpLn[LnInt[a], LnInt[b], e]

\* Math.pow(a/b, -e)
PowRatioNeg[a \in Int, b \in Int, e \in Int] == PowRatio[b, a, e]

(***************************************************************************)
(* fsrs/core/params.ts                                                     *)
(***************************************************************************)
S_MIN == 10
S_MAX == 365000000
FSRS6_DEFAULT_DECAY == 154200
\* default_w, the entries the pipeline reads
default_w == [i \in {8, 9, 10, 15, 16, 20} |->
                CASE i = 8  -> 1872200
                  [] i = 9  -> 166600
                  [] i = 10 -> 796000
                  [] i = 15 -> 601400
                  [] i = 16 -> 1872900
                  [] i = 20 -> FSRS6_DEFAULT_DECAY]

Rating == [Again |-> 1, Hard |-> 2, Good |-> 3, Easy |-> 4]
Grades == {"Again", "Hard", "Good", "Easy"}

Params == [DOMAIN default_w -> Int]

\* help.ts clamp(value, min, max)
clamp[value \in Int, lo \in Int, hi \in Int] == MathMin[MathMax[value, lo], hi]

(***************************************************************************)
(* The interfaces of reviewStep.ts, computeEffectiveState.ts,              *)
(* updateTensorStability.ts, the policy modules and scheduler/types.ts.    *)
(* An optional number is Undefined when absent; an optional signals object *)
(* carries present = FALSE when absent.                                    *)
(***************************************************************************)
Schedulers == {"DefaultScheduler", "SlowScheduler"}

RetentionSignalsType == [present : BOOLEAN, backlogSize : Int, recentFailureRate : Int, sessionLength : Int, dailyCapacity : Int, dueToday : Int, recentSuccessRate : Int, userIntent : Int]
ContextSignalsType == [present : BOOLEAN, environmentQuality : Int, difficulty : Int, timeOfDay : Int]
ReviewStepInputType == [S : Int, difficulty : Int, t : Int, scheduled_t : Int, grade : Grades, early : BOOLEAN, postponed : BOOLEAN, R_target : Int, retentionSignals : RetentionSignalsType, reviewsSoFarInSession : Int, contextSignals : ContextSignalsType, now : Int, scheduler : Schedulers]
EffectiveStateInput == [S : Int, t : Int, scheduled_t : Int, early : BOOLEAN, postponed : BOOLEAN, contextMultiplier : Int]
StabilityUpdateInput == [S : Int, R_eff : Int, grade : Int, difficulty : Int, scheduled_t : Int, actual_t : Int, contextMultiplier : Int, sessionMomentum : Int]
EffectiveState == [R_eff : Int, t_eff : Int]
SchedulerOutput == [nextInterval : Int, due : Int]
SchedulerInput == [S_eff : Int, t_eff : Int, R_eff : Int, grade : Grades, difficulty : Int, now : Int]
\* the local constants and variables of one reviewStep call
ReviewStepLocals == [R_eff : Int, t_eff : Int, pressure : Int, R_target_computed : Int, adjustedR_eff : Int, S_new : Int, sessionMomentum : Int, contextMultiplier : Int, nextInterval : Int, due : Int]

(***************************************************************************)
(* fsrs/core/recall.ts                                                     *)
(***************************************************************************)
\* decay = -w[20]; factor = exp(ln(0.9)/decay) - 1.  decayAbs is |decay|.
computeDecayFactor[params \in Params] ==
  [decayAbs |-> params[20], factor |-> Exp[DivPS[0 - Ln[900000], params[20]]] - PS]

\* (1 + factor * t / S) ^ decay for S > 0, t >= 0
retrievability[factor \in Int, decayAbs \in Int, elapsed_days \in Int, stability \in Int] ==
  PowRatioNeg[stability + MulPS[factor, elapsed_days], stability, decayAbs]

\* R = (1 + factor * t / S) ^ decay, for t >= 0 and S >= 0.
\* S = 0: t/0 is +Infinity (R = 0) or, for t = 0, 0/0 (R = NaN).
forgetting_curve[params \in Params, elapsed_days \in Int, stability \in Int] ==
  IF stability = 0 THEN (IF elapsed_days = 0 THEN NaN ELSE 0)
  ELSE retrievability[computeDecayFactor[params].factor, params[20], elapsed_days, stability]

(***************************************************************************)
(* fsrs/core/stability.ts                                                  *)
(***************************************************************************)
\* e^w8 (11-d) s^-w9 (e^(w10 (1-r)) - 1) hard_penalty easy_bound, for s > 0,
\* d <= 11 and r <= 1
recallGrowth[params \in Params, d \in Int, s \in Int, r \in Int, g \in Int] ==
  MulPS[MulPS[MulPS[MulPS[MulPS[Exp[params[8]], 11 * PS - d],
                          PowRatioNeg[s, DS, params[9]]],
                    Exp[MulPS[PS - r, params[10]]] - PS],
              IF Rating.Hard = g THEN params[15] ELSE PS],
        IF Rating.Easy = g THEN params[16] ELSE PS]

\* S'_r = clamp(s * (1 + growth), S_MIN, 36500).
\* s <= 0 makes Math.pow(s, -w9) Infinity or NaN and the product NaN.
next_recall_stability[params \in Params, d \in Int, s \in Int, r \in Int, g \in Int] ==
  IF IsNaN(s) \/ IsNaN(r) \/ s <= 0 THEN NaN
  ELSE clamp[SatMulPS[s, PS + recallGrowth[params, d, s, r, g], 2 * S_MAX], S_MIN, S_MAX]

(***************************************************************************)
(* tensor/computeEffectiveState.ts                                         *)
(***************************************************************************)
lambda == 1500000
EARLY_FACTOR == 850000
POSTPONED_FACTOR == 1150000
R_MIN == 10000
R_MAX == 990000

\* the anti-hoarding charge on a delayed review
antiHoarding[t \in Int, scheduled_t \in Int] ==
  IF scheduled_t # Undefined /\ t > scheduled_t
    THEN (t - scheduled_t) + MulPS[lambda, scheduled_t]
    ELSE t

earlyReduction[t_eff \in Int, early \in BOOLEAN] ==
  IF early THEN Max[0, MulPS[t_eff, EARLY_FACTOR]] ELSE t_eff

postponedIncrease[t_eff \in Int, scheduled_t \in Int, postponed \in BOOLEAN] ==
  IF postponed /\ scheduled_t = Undefined THEN MulPS[t_eff, POSTPONED_FACTOR] ELSE t_eff

\* effective elapsed time: anti-hoarding, then early, then postponed
effectiveTime[t \in Int, scheduled_t \in Int, early \in BOOLEAN, postponed \in BOOLEAN] ==
  postponedIncrease[earlyReduction[antiHoarding[t, scheduled_t], early], scheduled_t, postponed]

\* R_eff from t_eff
effectiveRecall[S \in Int, t_eff \in Int, contextMultiplier \in Int] ==
  MathMin[R_MAX, MathMax[R_MIN, NMulPS[forgetting_curve[default_w, t_eff, S], contextMultiplier]]]

effectiveStateAt[S \in Int, t_eff \in Int, contextMultiplier \in Int] ==
  [R_eff |-> effectiveRecall[S, t_eff, contextMultiplier], t_eff |-> t_eff]

computeEffectiveState[input \in EffectiveStateInput] ==
  effectiveStateAt[input.S,
                   effectiveTime[input.t, input.scheduled_t, input.early, input.postponed],
                   input.contextMultiplier]

(***************************************************************************)
(* tensor/updateTensorStability.ts                                         *)
(***************************************************************************)
MIN_STABILITY == 1000
MAX_STABILITY == 365000000
PENALTY_EXPONENT == 800000

\* S_new / (actual_t / scheduled_t) ^ 0.8 when the review was delayed.
\* scheduled_t = 0 divides by zero: the ratio and the penalty are +Infinity
\* and the quotient is 0.
delayPenalty[S_new \in Int, scheduled_t \in Int, actual_t \in Int] ==
  IF scheduled_t # Undefined /\ actual_t # Undefined /\ actual_t > scheduled_t
    THEN (IF IsNaN(S_new) THEN NaN
          ELSE IF scheduled_t = 0 THEN 0
          ELSE DivPS[S_new, PowRatio[actual_t, scheduled_t, PENALTY_EXPONENT]])
    ELSE S_new

updateStabilityTensor[input \in StabilityUpdateInput] ==
  MathMin[MAX_STABILITY,
    MathMax[MIN_STABILITY,
      delayPenalty[
        NMulPS[NMulPS[next_recall_stability[default_w, input.difficulty, input.S,
                                            input.R_eff, input.grade],
                      input.contextMultiplier],
               input.sessionMomentum],
        input.scheduled_t, input.actual_t]]]

(***************************************************************************)
(* tensor/policy: loadPressure, adaptiveRetention, sessionMomentum,        *)
(* contextModulation                                                       *)
(***************************************************************************)
PRESSURE_MIN == 850000

computeLoadPressure[dueToday \in Int, dailyCapacity \in Int] ==
  IF dueToday <= 0 THEN PS
  ELSE IF dailyCapacity <= 0 THEN PRESSURE_MIN
  ELSE Min[PS, Max[PRESSURE_MIN, DivPS[dailyCapacity, dueToday]]]

R_base == 850000
gamma == 100000
delta == 20000
OVERLOAD_WEIGHT == 50000
R_TARGET_MIN == 750000
R_TARGET_MAX == 970000

recentSuccessRateOf[signals \in RetentionSignalsType] ==
  IF signals.recentSuccessRate # Undefined THEN signals.recentSuccessRate
  ELSE PS - signals.recentFailureRate

userIntentOf[signals \in RetentionSignalsType] ==
  IF signals.userIntent # Undefined THEN signals.userIntent
  ELSE Max[0, Min[PS, PS - DivPS[signals.backlogSize, 100] - DivPS[signals.sessionLength, 120]]]

loadRatioOf[signals \in RetentionSignalsType] ==
  IF signals.dailyCapacity > 0 THEN DivPS[signals.dueToday, signals.dailyCapacity] ELSE PS

overloadPenalty[loadRatio \in Int] ==
  IF loadRatio > PS THEN MulPS[OVERLOAD_WEIGHT, Min[PS, loadRatio - PS]] ELSE 0

computeRTarget[signals \in RetentionSignalsType] ==
  Min[R_TARGET_MAX,
      Max[R_TARGET_MIN,
          R_base + MulPS[gamma, recentSuccessRateOf[signals]]
                 + MulPS[delta, userIntentOf[signals]]
                 - overloadPenalty[loadRatioOf[signals]]]]

applyAdaptiveRetention[R_eff \in Int, R_target \in Int, strength \in Int] ==
  IF IsNaN(R_eff) THEN NaN
  ELSE MathMin[R_MAX, MathMax[R_MIN, R_eff + SMulPS[R_target - R_eff, strength]]]

MOMENTUM_K == 20000
MOMENTUM_MIN == 900000

computeSessionMomentum[reviewsSoFar \in Int] ==
  Min[PS, Max[MOMENTUM_MIN, Exp[0 - MOMENTUM_K * reviewsSoFar]]]

CONTEXT_MIN == 850000
CONTEXT_MAX == 1050000

environmentTerm[signals \in ContextSignalsType] ==
  IF signals.environmentQuality # Undefined
    THEN SMulPS[signals.environmentQuality - 500000, 100000] ELSE 0
difficultyTerm[signals \in ContextSignalsType] ==
  IF signals.difficulty # Undefined THEN SMulPS[PS - signals.difficulty, 50000] ELSE 0
timeOfDayTerm[signals \in ContextSignalsType] ==
  IF signals.timeOfDay # Undefined THEN SMulPS[signals.timeOfDay - 500000, 50000] ELSE 0

computeContextMultiplier[signals \in ContextSignalsType] ==
  IF ~signals.present THEN PS
  ELSE Min[CONTEXT_MAX,
           Max[CONTEXT_MIN,
               PS + environmentTerm[signals] + difficultyTerm[signals]
                  + timeOfDayTerm[signals]]]

(***************************************************************************)
(* scheduler/types.ts and two implementations: DefaultScheduler (api.ts)   *)
(* and SlowScheduler (invariants.test.ts).  SlowScheduler counts its due   *)
(* date from the clock, which is taken to show input.now.                  *)
(***************************************************************************)
SLOW_MULTIPLIER == 2000000

nextIntervalOf[scheduler \in Schedulers, S_eff \in Int] ==
  IF scheduler = "DefaultScheduler" THEN S_eff ELSE NMulPS[S_eff, SLOW_MULTIPLIER]

dueAfter[now \in Int, nextInterval \in Int] ==
  IF IsNaN(nextInterval) THEN NaN ELSE now + nextInterval

schedulerOutput[now \in Int, nextInterval \in Int] ==
  [nextInterval |-> nextInterval, due |-> dueAfter[now, nextInterval]]

schedule[scheduler \in Schedulers, input \in SchedulerInput] ==
  schedulerOutput[input.now, nextIntervalOf[scheduler, input.S_eff]]

(***************************************************************************)
(* tensor/reviewStep.ts: each stage as a function of the input and of the  *)
(* locals computed so far                                                  *)
(***************************************************************************)
NoRetentionSignals ==
  [present |-> FALSE, backlogSize |-> Undefined, recentFailureRate |-> Undefined,
   sessionLength |-> Undefined, dailyCapacity |-> Undefined, dueToday |-> Undefined,
   recentSuccessRate |-> Undefined, userIntent |-> Undefined]
NoContextSignals ==
  [present |-> FALSE, environmentQuality |-> Undefined, difficulty |-> Undefined,
   timeOfDay |-> Undefined]
NoLocals ==
  [R_eff |-> Undefined, t_eff |-> Undefined, pressure |-> Undefined,
   R_target_computed |-> Undefined, adjustedR_eff |-> Undefined, S_new |-> Undefined,
   sessionMomentum |-> Undefined, contextMultiplier |-> Undefined,
   nextInterval |-> Undefined, due |-> Undefined]

DEFAULT_R_TARGET == 900000
baseStrength == 500000

\* the computeEffectiveState call of Step 1, repeated by the load clamp
effectiveStateOf[input \in ReviewStepInputType] ==
  computeEffectiveState[[S |-> input.S, t |-> input.t, scheduled_t |-> input.scheduled_t,
                         early |-> input.early, postponed |-> input.postponed,
                         contextMultiplier |-> PS]]

withEffectiveState[l \in ReviewStepLocals, eff \in EffectiveState] ==
  [l EXCEPT !.R_eff = eff.R_eff, !.t_eff = eff.t_eff]

\* Step 1: Compute effective state
stepEffectiveState[input \in ReviewStepInputType, l \in ReviewStepLocals] ==
  withEffectiveState[l, effectiveStateOf[input]]

\* Step 2: Compute load pressure
stepPressure[input \in ReviewStepInputType, l \in ReviewStepLocals] ==
  [l EXCEPT !.pressure =
     IF input.retentionSignals.present
       THEN computeLoadPressure[input.retentionSignals.dueToday,
                                input.retentionSignals.dailyCapacity]
       ELSE PS]

\* Step 3: Compute dynamic R_target
stepRTarget[input \in ReviewStepInputType, l \in ReviewStepLocals] ==
  [l EXCEPT !.R_target_computed =
     IF input.R_target # Undefined THEN input.R_target
     ELSE IF input.retentionSignals.present THEN computeRTarget[input.retentionSignals]
     ELSE DEFAULT_R_TARGET]

\* Step 4: Apply adaptive retention with pressure-scaled strength
stepAdjustedR[input \in ReviewStepInputType, l \in ReviewStepLocals] ==
  [l EXCEPT !.adjustedR_eff =
     applyAdaptiveRetention[l.R_eff, l.R_target_computed, MulPS[baseStrength, l.pressure]]]

\* the updateStabilityTensor call of Step 5, repeated by the load clamp
stabilityOf[input \in ReviewStepInputType, R \in Int] ==
  updateStabilityTensor[[S |-> input.S, R_eff |-> R, grade |-> Rating[input.grade],
                         difficulty |-> input.difficulty,
                         scheduled_t |-> input.scheduled_t, actual_t |-> input.t,
                         contextMultiplier |-> PS, sessionMomentum |-> PS]]

\* Step 5: Update stability tensor
stepStability[input \in ReviewStepInputType, l \in ReviewStepLocals] ==
  [l EXCEPT !.S_new = stabilityOf[input, l.adjustedR_eff]]

\* S * sessionMomentum * pressure * contextMultiplier
applyMultipliers[S \in Int, sessionMomentum \in Int, pressure \in Int, contextMultiplier \in Int] ==
  NMulPS[NMulPS[NMulPS[S, sessionMomentum], pressure], contextMultiplier]

withMultipliers[l \in ReviewStepLocals, sessionMomentum \in Int, contextMultiplier \in Int] ==
  [l EXCEPT !.sessionMomentum = sessionMomentum,
            !.contextMultiplier = contextMultiplier,
            !.S_new = applyMultipliers[l.S_new, sessionMomentum, l.pressure,
                                       contextMultiplier]]

\* Step 6: Apply sessionMomentum x loadPressure x contextMultiplier
stepMultipliers[input \in ReviewStepInputType, l \in ReviewStepLocals] ==
  withMultipliers[l, computeSessionMomentum[input.reviewsSoFarInSession],
                  computeContextMultiplier[input.contextSignals]]

\* the load clamp ("Ensure higher load never increases stability"): a
\* baseline from the unadjusted R_eff, under the same multipliers
stepLoadClamp[input \in ReviewStepInputType, l \in ReviewStepLocals] ==
  IF input.retentionSignals.present /\ l.pressure < PS
    THEN [l EXCEPT !.S_new =
            MathMin[l.S_new,
                    applyMultipliers[stabilityOf[input, effectiveStateOf[input].R_eff],
                                     l.sessionMomentum, l.pressure, l.contextMultiplier]]]
    ELSE l

\* a Step 7 that hands the scheduler the stability the call was entered with
schedulerInputStale(input, l) ==
  [S_eff |-> input.S, t_eff |-> l.t_eff, R_eff |-> l.adjustedR_eff,
   grade |-> input.grade, difficulty |-> input.difficulty, now |-> input.now]

\* what Step 7 hands to scheduler.schedule
schedulerInput(input, l) ==
  [S_eff |-> l.S_new, t_eff |-> l.t_eff, R_eff |-> l.adjustedR_eff,
   grade |-> input.grade, difficulty |-> input.difficulty, now |-> input.now]

withSchedulerResult[l \in ReviewStepLocals, schedulerResult \in SchedulerOutput] ==
  [l EXCEPT !.nextInterval = schedulerResult.nextInterval, !.due = schedulerResult.due]

\* Step 7: Schedule next review
stepSchedule[input \in ReviewStepInputType, l \in ReviewStepLocals] ==
  withSchedulerResult[l, schedule[input.scheduler, schedulerInput(input, l)]]

\* a return that takes the scheduler's interval for the new stability
reviewStepOutputFromScheduler(l) ==
  [S_new |-> l.nextInterval, nextInterval |-> l.nextInterval, due |-> l.due,
   R_eff |-> l.adjustedR_eff, t_eff |-> l.t_eff]

\* the ReviewStepOutput returned
reviewStepOutput(l) ==
  [S_new |-> l.S_new, nextInterval |-> l.nextInterval, due |-> l.due,
   R_eff |-> l.adjustedR_eff, t_eff |-> l.t_eff]

\* reviewStep as one call
reviewStep[input \in ReviewStepInputType] ==
  reviewStepOutput(
    stepSchedule[input,
      stepLoadClamp[input,
        stepMultipliers[input,
          stepStability[input,
            stepAdjustedR[input,
              stepRTarget[input,
                stepPressure[input,
                  stepEffectiveState[input, NoLocals]]]]]]]])

(***************************************************************************)
(* tensor/policyMerge.ts.  A Partial<RetentionSignals> or                  *)
(* Partial<ContextSignals> is a signals record in which any field may be   *)
(* Undefined; an optional boolean or scheduler is <<>> or <<value>>.       *)
(***************************************************************************)
\* a ?? b
OrElse(opt, default) == IF opt = <<>> THEN default ELSE opt[1]
NumOrElse(n, default) == IF n = Undefined THEN default ELSE n

\* a key that an object holds with the value undefined, as in
\* {dueToday: undefined}; Undefined is a key the object does not hold
ExplicitUndefined == 0 - 2147483645

\* what reading a key gives
read(value) == IF value = ExplicitUndefined THEN Undefined ELSE value

\* {...deckDefaults, ...runtimeContext}, one key: the spread copies every
\* key the object holds, whatever its value
spread(deckDefaults, runtimeContext, f) ==
  IF runtimeContext.present /\ runtimeContext[f] # Undefined THEN runtimeContext[f]
  ELSE IF deckDefaults.present THEN deckDefaults[f]
  ELSE Undefined

mergedRetentionSignals(deckDefaults, runtimeContext) ==
  [present |-> TRUE,
   backlogSize |-> spread(deckDefaults, runtimeContext, "backlogSize"),
   recentFailureRate |-> spread(deckDefaults, runtimeContext, "recentFailureRate"),
   sessionLength |-> spread(deckDefaults, runtimeContext, "sessionLength"),
   dailyCapacity |-> spread(deckDefaults, runtimeContext, "dailyCapacity"),
   dueToday |-> spread(deckDefaults, runtimeContext, "dueToday"),
   recentSuccessRate |-> spread(deckDefaults, runtimeContext, "recentSuccessRate"),
   userIntent |-> spread(deckDefaults, runtimeContext, "userIntent")]

completeOrUndefined(merged) ==
  IF \/ read(merged.backlogSize) = Undefined
     \/ read(merged.recentFailureRate) = Undefined
     \/ read(merged.sessionLength) = Undefined
     \/ read(merged.dailyCapacity) = Undefined
     \/ read(merged.dueToday) = Undefined
    THEN NoRetentionSignals
    ELSE [f \in DOMAIN merged |-> IF f = "present" THEN TRUE ELSE read(merged[f])]

mergeRetentionSignals(deckDefaults, runtimeContext) ==
  IF ~deckDefaults.present /\ ~runtimeContext.present THEN NoRetentionSignals
  ELSE completeOrUndefined(mergedRetentionSignals(deckDefaults, runtimeContext))

mergedContextSignals(deckDefaults, runtimeContext) ==
  [present |-> TRUE,
   environmentQuality |-> spread(deckDefaults, runtimeContext, "environmentQuality"),
   difficulty |-> spread(deckDefaults, runtimeContext, "difficulty"),
   timeOfDay |-> spread(deckDefaults, runtimeContext, "timeOfDay")]

nonEmptyOrUndefined(merged) ==
  IF /\ merged.environmentQuality = Undefined
     /\ merged.difficulty = Undefined
     /\ merged.timeOfDay = Undefined
    THEN NoContextSignals
    ELSE [f \in DOMAIN merged |-> IF f = "present" THEN TRUE ELSE read(merged[f])]

mergeContextSignals(deckDefaults, runtimeContext) ==
  IF ~deckDefaults.present /\ ~runtimeContext.present THEN NoContextSignals
  ELSE nonEmptyOrUndefined(mergedContextSignals(deckDefaults, runtimeContext))

mergePolicyContext(deckConfig, sessionContext, defaultScheduler) ==
  [R_target |-> NumOrElse(sessionContext.R_target, deckConfig.defaultRetentionTarget),
   retentionSignals |-> mergeRetentionSignals(deckConfig.defaultRetentionSignals,
                                              sessionContext.retentionSignals),
   contextSignals |-> mergeContextSignals(deckConfig.defaultContextSignals,
                                          sessionContext.contextSignals),
   reviewsSoFarInSession |-> NumOrElse(sessionContext.reviewsSoFarInSession, 0),
   scheduler |-> OrElse(sessionContext.scheduler,
                        OrElse(deckConfig.defaultScheduler, defaultScheduler)),
   early |-> OrElse(sessionContext.early, FALSE),
   postponed |-> OrElse(sessionContext.postponed, FALSE)]

(***************************************************************************)
(* tensor/card.ts and tensor/deck.ts                                       *)
(***************************************************************************)
CardIds == {"c1", "c2"}

MemoryState(S, difficulty, t, scheduled_t) ==
  [S |-> S, difficulty |-> difficulty, t |-> t, scheduled_t |-> scheduled_t]

\* new Card(id, deckId, memoryState, due)
Card(memoryState, due) ==
  [present |-> TRUE, memoryState |-> memoryState, due |-> due,
   lastReviewed |-> Undefined, reviewCount |-> 0]

\* no entry under a card id
NoCard ==
  [present |-> FALSE,
   memoryState |-> MemoryState(Undefined, Undefined, Undefined, Undefined),
   due |-> Undefined, lastReviewed |-> Undefined, reviewCount |-> 0]

\* as updateAfterReview, the count set to 1 instead of raised by 1
updateAfterReviewCountsOnce(card, newMemoryState, due, now) ==
  [card EXCEPT !.memoryState = newMemoryState, !.due = due, !.lastReviewed = now,
               !.reviewCount = 1]

\* card.updateAfterReview(result, now)
updateAfterReview(card, newMemoryState, due, now) ==
  [card EXCEPT !.memoryState = newMemoryState, !.due = due, !.lastReviewed = now,
               !.reviewCount = @ + 1]

\* the ReviewStepInput that processReview prepares
reviewInput(card, outcome, mergedContext, now) ==
  [S |-> card.memoryState.S, difficulty |-> card.memoryState.difficulty,
   t |-> card.memoryState.t, scheduled_t |-> card.memoryState.scheduled_t,
   grade |-> outcome, early |-> mergedContext.early,
   postponed |-> mergedContext.postponed, R_target |-> mergedContext.R_target,
   retentionSignals |-> mergedContext.retentionSignals,
   reviewsSoFarInSession |-> mergedContext.reviewsSoFarInSession,
   contextSignals |-> mergedContext.contextSignals, now |-> now,
   scheduler |-> mergedContext.scheduler]

\* as newMemoryState of processReview, t and scheduled_t kept
newMemoryStateKeepsTime(card, result) ==
  MemoryState(result.S_new, card.memoryState.difficulty, card.memoryState.t,
              card.memoryState.scheduled_t)

\* newMemoryState of processReview
newMemoryStateOf(card, result) ==
  MemoryState(result.S_new, card.memoryState.difficulty, 0, Undefined)

\* what processReview returns, or the error it throws
ReviewResult(newMemoryState, result) ==
  [status |-> "ok", newMemoryState |-> newMemoryState,
   nextInterval |-> result.nextInterval, due |-> result.due,
   R_eff |-> result.R_eff, t_eff |-> result.t_eff]
NoReviewResult ==
  [status |-> "none", newMemoryState |-> NoCard.memoryState,
   nextInterval |-> Undefined, due |-> Undefined, R_eff |-> Undefined,
   t_eff |-> Undefined]
CardNotFound == [NoReviewResult EXCEPT !.status = "Card not found"]
\* the exception of a scheduler, passed on by reviewStep and processReview
SchedulerThrew == [NoReviewResult EXCEPT !.status = "Scheduler threw"]

(***************************************************************************)
(* State                                                                   *)
(*   call    the reviewStep invocation in flight: its position pc, its     *)
(*           input, its locals l, and sched, the inputs it has handed to   *)
(*           scheduler.schedule so far                                     *)
(*   runs    the completed reviewStep invocations, in order of return      *)
(*   tensor  a direct call of updateStabilityTensor: its input, and its     *)
(*           result once called                                            *)
(*   deck    a Deck: its config and default scheduler, its cards map, the  *)
(*           ids in its queue's map (the queue holds the deck's own Card   *)
(*           objects), and what the last processReview returned or threw   *)
(*   ops     the number of Deck operations performed                       *)
(*   flights the reviewStep calls in flight at the same time, one per       *)
(*           thread: each call's position, input, locals and result        *)
(*   calls   the completed direct calls of the component functions         *)
(*           (computeEffectiveState and the policy functions), in order:   *)
(*           the function's name, its arguments and what it returned       *)
(***************************************************************************)
VARIABLES call, runs, tensor, deck, ops, calls, flights

vars == <<call, runs, tensor, deck, ops, calls, flights>>

Threads == {"p", "q"}

MaxRuns == 2
MaxOps == 3
MaxCalls == 2

RetentionSignals(backlogSize, recentFailureRate, sessionLength, dailyCapacity, dueToday) ==
  [present |-> TRUE, backlogSize |-> backlogSize, recentFailureRate |-> recentFailureRate,
   sessionLength |-> sessionLength, dailyCapacity |-> dailyCapacity, dueToday |-> dueToday,
   recentSuccessRate |-> Undefined, userIntent |-> Undefined]
ContextSignals(environmentQuality, difficulty, timeOfDay) ==
  [present |-> TRUE, environmentQuality |-> environmentQuality, difficulty |-> difficulty,
   timeOfDay |-> timeOfDay]

ReviewStepInput(S, difficulty, t, scheduled_t, grade, early, postponed, R_target, retentionSignals, reviewsSoFarInSession, contextSignals, now, scheduler) ==
  [S |-> S, difficulty |-> difficulty, t |-> t, scheduled_t |-> scheduled_t,
   grade |-> grade, early |-> early, postponed |-> postponed, R_target |-> R_target,
   retentionSignals |-> retentionSignals,
   reviewsSoFarInSession |-> reviewsSoFarInSession,
   contextSignals |-> contextSignals, now |-> now, scheduler |-> scheduler]

NoInput ==
  ReviewStepInput(Undefined, Undefined, Undefined, Undefined, "Good", FALSE, FALSE,
                  Undefined, NoRetentionSignals, 0, NoContextSignals, 0,
                  "DefaultScheduler")

IdleCall == [pc |-> "idle", input |-> NoInput, l |-> NoLocals, sched |-> <<>>]

\* a thread that has not entered reviewStep
NoFlight ==
  [pc |-> "idle", input |-> NoInput, l |-> NoLocals, out |-> <<>>, interleaved |-> FALSE]

NoTensorInput ==
  [S |-> Undefined, R_eff |-> Undefined, grade |-> Undefined, difficulty |-> Undefined,
   scheduled_t |-> Undefined, actual_t |-> Undefined, contextMultiplier |-> Undefined,
   sessionMomentum |-> Undefined]
NoTensorCall == [called |-> FALSE, in |-> NoTensorInput, out |-> Undefined]

\* a DeckConfig; policyDefaults is flattened into its two fields
DeckConfig(defaultRetentionTarget, defaultDailyCapacity, defaultScheduler, defaultRetentionSignals, defaultContextSignals) ==
  [defaultRetentionTarget |-> defaultRetentionTarget,
   defaultDailyCapacity |-> defaultDailyCapacity,
   defaultScheduler |-> defaultScheduler,
   defaultRetentionSignals |-> defaultRetentionSignals,
   defaultContextSignals |-> defaultContextSignals]

EmptyConfig == DeckConfig(Undefined, Undefined, <<>>, NoRetentionSignals, NoContextSignals)

\* new Deck(id, name, config, defaultScheduler)
\* no DeckStatistics returned yet
NoStatistics ==
  [totalCards |-> 0, dueToday |-> 0, backlogSize |-> 0, averageStability |-> 0]

\* new Deck(id, name, config, defaultScheduler) with its Queue("due_first",
\* config.defaultDailyCapacity ?? null, false).  cards and queue are the two
\* Maps, which hold the same Card objects; order is the insertion order of
\* the queue's Map; passed holds the MemoryState objects the caller handed
\* to addCard, selected the Card[] of the last getNextReview, statistics the
\* DeckStatistics of the last updateStatistics.  Undefined is the null
\* dailyCap.
NewDeck(config, defaultScheduler) ==
  [config |-> config, defaultScheduler |-> defaultScheduler,
   cards |-> [id \in CardIds |-> NoCard], queue |-> {}, returned |-> NoReviewResult,
   order |-> <<>>,
   passed |-> [id \in CardIds |-> NoCard.memoryState],
   priorityStrategy |-> "due_first", dailyCap |-> config.defaultDailyCapacity,
   easyDayMode |-> FALSE, selected |-> <<>>, statistics |-> NoStatistics]

Init ==
  /\ call = IdleCall
  /\ runs = <<>>
  /\ tensor = NoTensorCall
  /\ deck = NewDeck(EmptyConfig, "DefaultScheduler")
  /\ ops = 0
  /\ calls = <<>>
  /\ flights = [p \in Threads |-> NoFlight]

(***************************************************************************)
(* reviewStep, stage by stage                                              *)
(***************************************************************************)
\* reviewStep is entered with input
Invoke(input) ==
  /\ call.pc = "idle"
  /\ Len(runs) < MaxRuns
  /\ call' = [IdleCall EXCEPT !.pc = "step1", !.input = input]
  /\ UNCHANGED <<runs, tensor, deck, ops, calls, flights>>

\* a Step 1 that reads the early flag for the postponed flag and back
Step1FlagsSwapped ==
  /\ call.pc = "step1"
  /\ call' = [call EXCEPT !.pc = "step2",
                !.l = stepEffectiveState[[call.input EXCEPT
                                            !.early = call.input.postponed,
                                            !.postponed = call.input.early],
                                         call.l]]
  /\ UNCHANGED <<runs, tensor, deck, ops, calls, flights>>

\* a Step 1 that hands computeEffectiveState the context multiplier
Step1WithContext ==
  /\ call.pc = "step1"
  /\ call' = [call EXCEPT !.pc = "step2",
                !.l = withEffectiveState[call.l,
                        computeEffectiveState[
                          [S |-> call.input.S, t |-> call.input.t,
                           scheduled_t |-> call.input.scheduled_t,
                           early |-> call.input.early, postponed |-> call.input.postponed,
                           contextMultiplier |->
                             computeContextMultiplier[call.input.contextSignals]]]]]
  /\ UNCHANGED <<runs, tensor, deck, ops, calls, flights>>

\* Step 1: Compute effective state
Step1 ==
  /\ call.pc = "step1"
  /\ call' = [call EXCEPT !.pc = "step2", !.l = stepEffectiveState[call.input, call.l]]
  /\ UNCHANGED <<runs, tensor, deck, ops, calls, flights>>

\* a Step 2 that takes dailyCapacity / dueToday as it is
Step2Unclamped ==
  /\ call.pc = "step2"
  /\ call' = [call EXCEPT !.pc = "step3",
                !.l.pressure =
                  IF call.input.retentionSignals.present
                       /\ call.input.retentionSignals.dueToday > 0
                       /\ call.input.retentionSignals.dailyCapacity > 0
                    THEN DivPS[call.input.retentionSignals.dailyCapacity,
                               call.input.retentionSignals.dueToday]
                    ELSE PS]
  /\ UNCHANGED <<runs, tensor, deck, ops, calls, flights>>

\* Step 2: Compute load pressure
Step2 ==
  /\ call.pc = "step2"
  /\ call' = [call EXCEPT !.pc = "step3", !.l = stepPressure[call.input, call.l]]
  /\ UNCHANGED <<runs, tensor, deck, ops, calls, flights>>

\* Step 3: Compute dynamic R_target
Step3 ==
  /\ call.pc = "step3"
  /\ call' = [call EXCEPT !.pc = "step4", !.l = stepRTarget[call.input, call.l]]
  /\ UNCHANGED <<runs, tensor, deck, ops, calls, flights>>

\* a Step 4 that applies adaptive retention at full strength
Step4FullStrength ==
  /\ call.pc = "step4"
  /\ call' = [call EXCEPT !.pc = "step5",
                !.l = [call.l EXCEPT !.adjustedR_eff =
                         applyAdaptiveRetention[call.l.R_eff, call.l.R_target_computed,
                                                PS]]]
  /\ UNCHANGED <<runs, tensor, deck, ops, calls, flights>>

\* Step 4: Apply adaptive retention with pressure-scaled strength
Step4 ==
  /\ call.pc = "step4"
  /\ call' = [call EXCEPT !.pc = "step5", !.l = stepAdjustedR[call.input, call.l]]
  /\ UNCHANGED <<runs, tensor, deck, ops, calls, flights>>

\* Step 5: Update stability tensor
\* a Step 5 whose gradeMap gives Again the Rating of Hard
Step5AgainAsHard ==
  /\ call.pc = "step5"
  /\ call' = [call EXCEPT !.pc = "step6",
                !.l = stepStability[IF call.input.grade = "Again"
                                      THEN [call.input EXCEPT !.grade = "Hard"]
                                    ELSE call.input, call.l]]
  /\ UNCHANGED <<runs, tensor, deck, ops, calls, flights>>

Step5 ==
  /\ call.pc = "step5"
  /\ call' = [call EXCEPT !.pc = "step6", !.l = stepStability[call.input, call.l]]
  /\ UNCHANGED <<runs, tensor, deck, ops, calls, flights>>

\* a Step 6 that divides by the session momentum
Step6MomentumDivides ==
  /\ call.pc = "step6"
  /\ call' = [call EXCEPT !.pc = "clamp",
                !.l = withMultipliers[call.l,
                        DivPS[PS, computeSessionMomentum[call.input.reviewsSoFarInSession]],
                        computeContextMultiplier[call.input.contextSignals]]]
  /\ UNCHANGED <<runs, tensor, deck, ops, calls, flights>>

\* Step 6: Apply sessionMomentum x loadPressure x contextMultiplier
Step6 ==
  /\ call.pc = "step6"
  /\ call' = [call EXCEPT !.pc = "clamp", !.l = stepMultipliers[call.input, call.l]]
  /\ UNCHANGED <<runs, tensor, deck, ops, calls, flights>>

\* the load clamp
LoadClamp ==
  /\ call.pc = "clamp"
  /\ call' = [call EXCEPT !.pc = "step7", !.l = stepLoadClamp[call.input, call.l]]
  /\ UNCHANGED <<runs, tensor, deck, ops, calls, flights>>

\* Step 7: Schedule next review
Step7 ==
  /\ call.pc = "step7"
  /\ call' = [call EXCEPT !.pc = "return",
                !.sched = Append(call.sched, schedulerInput(call.input, call.l)),
                !.l = stepSchedule[call.input, call.l]]
  /\ UNCHANGED <<runs, tensor, deck, ops, calls, flights>>

\* reviewStep returns
Return ==
  /\ call.pc = "return"
  /\ runs' = Append(runs, [in |-> call.input, out |-> reviewStepOutput(call.l),
                           sched |-> call.sched])
  /\ call' = IdleCall
  /\ UNCHANGED <<tensor, deck, ops, calls, flights>>

Stages == Step1 \/ Step2 \/ Step3 \/ Step4 \/ Step5 \/ Step6 \/ LoadClamp \/ Step7 \/ Return

(***************************************************************************)
(* reviewStep calls in flight at the same time.  Each call has its own     *)
(* destructured input and its own local constants and variables; what the  *)
(* calls share is the frozen default_w (params.ts:23), which none can      *)
(* write.                                                                  *)
(***************************************************************************)
InFlight(p) == flights[p].pc \notin {"idle", "done"}

\* the next stage of a call, on the call's own input and locals
staged(c) ==
  CASE c.pc = "step1" -> [c EXCEPT !.pc = "step2", !.l = stepEffectiveState[c.input, c.l]]
    [] c.pc = "step2" -> [c EXCEPT !.pc = "step3", !.l = stepPressure[c.input, c.l]]
    [] c.pc = "step3" -> [c EXCEPT !.pc = "step4", !.l = stepRTarget[c.input, c.l]]
    [] c.pc = "step4" -> [c EXCEPT !.pc = "step5", !.l = stepAdjustedR[c.input, c.l]]
    [] c.pc = "step5" -> [c EXCEPT !.pc = "step6", !.l = stepStability[c.input, c.l]]
    [] c.pc = "step6" -> [c EXCEPT !.pc = "clamp", !.l = stepMultipliers[c.input, c.l]]
    [] c.pc = "clamp" -> [c EXCEPT !.pc = "step7", !.l = stepLoadClamp[c.input, c.l]]
    [] c.pc = "step7" -> [c EXCEPT !.pc = "return", !.l = stepSchedule[c.input, c.l]]
    [] c.pc = "return" -> [c EXCEPT !.pc = "done", !.out = <<reviewStepOutput(c.l)>>]

\* a thread enters reviewStep(input)
Enter(p, input) ==
  /\ flights[p].pc = "idle"
  /\ flights' = [flights EXCEPT ![p] = [NoFlight EXCEPT !.pc = "step1", !.input = input]]
  /\ UNCHANGED <<call, runs, tensor, deck, ops, calls>>

\* as Advance, with the pressure of Step 2 kept in one variable that all
\* calls in flight share
AdvanceSharedPressure(p) ==
  /\ InFlight(p)
  /\ flights' = [q \in Threads |->
                   IF q = p THEN staged(flights[p])
                   ELSE IF InFlight(q)
                     THEN [flights[q] EXCEPT !.interleaved = TRUE,
                                             !.l.pressure =
                                               IF flights[p].pc = "step2"
                                                 THEN staged(flights[p]).l.pressure
                                                 ELSE @]
                   ELSE flights[q]]
  /\ UNCHANGED <<call, runs, tensor, deck, ops, calls>>

\* a thread runs the next stage of its call; the other calls in flight have
\* been interleaved with
Advance(p) ==
  /\ InFlight(p)
  /\ flights' = [q \in Threads |->
                   IF q = p THEN staged(flights[p])
                   ELSE IF InFlight(q) THEN [flights[q] EXCEPT !.interleaved = TRUE]
                   ELSE flights[q]]
  /\ UNCHANGED <<call, runs, tensor, deck, ops, calls>>

(***************************************************************************)
(* updateStabilityTensor called directly                                   *)
(***************************************************************************)
CallUpdateStabilityTensor ==
  /\ ~tensor.called
  /\ tensor' = [tensor EXCEPT !.called = TRUE, !.out = updateStabilityTensor[tensor.in]]
  /\ UNCHANGED <<call, runs, deck, ops, calls, flights>>

(***************************************************************************)
(* computeEffectiveState called directly                                   *)
(***************************************************************************)
Called(fn, input, result) == [fn |-> fn, in |-> input, out |-> result]

\* as computeEffectiveState, but a delayed review is charged lambda *
\* scheduled_t whatever the delay
CallComputeEffectiveStateFlatDelay(input) ==
  /\ Len(calls) < MaxCalls
  /\ calls' = Append(calls, Called("computeEffectiveState", input,
        effectiveStateAt[input.S,
          postponedIncrease[
            earlyReduction[IF input.scheduled_t # Undefined /\ input.t > input.scheduled_t
                             THEN MulPS[lambda, input.scheduled_t] ELSE input.t,
                           input.early],
            input.scheduled_t, input.postponed],
          input.contextMultiplier]))
  /\ UNCHANGED <<call, runs, tensor, deck, ops, flights>>

\* as computeEffectiveState, but the postponed factor does not look at
\* scheduled_t
CallComputeEffectiveStateDoublePenalty(input) ==
  /\ Len(calls) < MaxCalls
  /\ calls' = Append(calls, Called("computeEffectiveState", input,
        effectiveStateAt[input.S,
          postponedIncrease[
            earlyReduction[antiHoarding[input.t, input.scheduled_t], input.early],
            Undefined, input.postponed],
          input.contextMultiplier]))
  /\ UNCHANGED <<call, runs, tensor, deck, ops, flights>>

CallComputeEffectiveState(input) ==
  /\ Len(calls) < MaxCalls
  /\ calls' = Append(calls, Called("computeEffectiveState", input, computeEffectiveState[input]))
  /\ UNCHANGED <<call, runs, tensor, deck, ops, flights>>

(***************************************************************************)
(* The policy functions called directly                                    *)
(***************************************************************************)
\* as computeLoadPressure, without the early return for dueToday <= 0: the
\* quotient is Infinity at dueToday = 0 and negative below
CallComputeLoadPressureNoLoadGuard(dueToday, dailyCapacity) ==
  /\ Len(calls) < MaxCalls
  /\ calls' = Append(calls, Called("computeLoadPressure",
        [dueToday |-> dueToday, dailyCapacity |-> dailyCapacity],
        IF dailyCapacity <= 0 \/ dueToday < 0 THEN PRESSURE_MIN
        ELSE IF dueToday = 0 THEN PS
        ELSE computeLoadPressure[dueToday, dailyCapacity]))
  /\ UNCHANGED <<call, runs, tensor, deck, ops, flights>>

CallComputeLoadPressure(dueToday, dailyCapacity) ==
  /\ Len(calls) < MaxCalls
  /\ calls' = Append(calls, Called("computeLoadPressure",
        [dueToday |-> dueToday, dailyCapacity |-> dailyCapacity],
        computeLoadPressure[dueToday, dailyCapacity]))
  /\ UNCHANGED <<call, runs, tensor, deck, ops, flights>>

CallComputeRTarget(signals) ==
  /\ Len(calls) < MaxCalls
  /\ calls' = Append(calls, Called("computeRTarget", signals, computeRTarget[signals]))
  /\ UNCHANGED <<call, runs, tensor, deck, ops, flights>>

\* as applyAdaptiveRetention, moving twice as far
CallApplyAdaptiveRetentionTwice(R_eff, R_target, strength) ==
  /\ Len(calls) < MaxCalls
  /\ calls' = Append(calls, Called("applyAdaptiveRetention",
        [R_eff |-> R_eff, R_target |-> R_target, strength |-> strength],
        applyAdaptiveRetention[R_eff, R_target, 2 * strength]))
  /\ UNCHANGED <<call, runs, tensor, deck, ops, flights>>

CallApplyAdaptiveRetention(R_eff, R_target, strength) ==
  /\ Len(calls) < MaxCalls
  /\ calls' = Append(calls, Called("applyAdaptiveRetention",
        [R_eff |-> R_eff, R_target |-> R_target, strength |-> strength],
        applyAdaptiveRetention[R_eff, R_target, strength]))
  /\ UNCHANGED <<call, runs, tensor, deck, ops, flights>>

(***************************************************************************)
(* Deck operations                                                         *)
(***************************************************************************)
\* as addCard, without queue.addCard(card)
AddCardToDeckOnly(cardId, memoryState, due) ==
  /\ ops < MaxOps
  /\ deck' = [deck EXCEPT !.cards[cardId] = Card(memoryState, due),
                          !.passed[cardId] = memoryState]
  /\ ops' = ops + 1
  /\ UNCHANGED <<call, runs, tensor, calls, flights>>

\* deck.addCard(cardId, memoryState, due)
AddCard(cardId, memoryState, due) ==
  /\ ops < MaxOps
  /\ deck' = [deck EXCEPT !.cards[cardId] = Card(memoryState, due),
                          !.queue = @ \cup {cardId},
                          !.order = IF cardId \in deck.queue THEN @ ELSE Append(@, cardId),
                          !.passed[cardId] = memoryState]
  /\ ops' = ops + 1
  /\ UNCHANGED <<call, runs, tensor, calls, flights>>

\* deck.removeCard(cardId)
RemoveCard(cardId) ==
  /\ ops < MaxOps
  /\ deck' = [deck EXCEPT !.cards[cardId] = NoCard, !.queue = @ \ {cardId},
                          !.order = SelectSeq(@, LAMBDA id : id # cardId)]
  /\ ops' = ops + 1
  /\ UNCHANGED <<call, runs, tensor, calls, flights>>

\* as reviewed, but the new state is written into the MemoryState object the
\* card holds, which is the object the caller passed to addCard
reviewedInPlace(cardId, now, result) ==
  [deck EXCEPT
     !.cards[cardId] = updateAfterReview(@, newMemoryStateOf(@, result), result.due, now),
     !.passed[cardId] = newMemoryStateOf(deck.cards[cardId], result),
     !.returned = ReviewResult(newMemoryStateOf(deck.cards[cardId], result), result)]

\* processReview after reviewStep has returned result: card.updateAfterReview,
\* queue.updateCard (the same Card object, when the queue holds it) and the
\* ReviewResult
reviewed(cardId, now, result) ==
  [deck EXCEPT
     !.cards[cardId] = updateAfterReview(@, newMemoryStateOf(@, result), result.due, now),
     !.returned = ReviewResult(newMemoryStateOf(deck.cards[cardId], result), result)]

\* a Scheduler whose schedule throws
ThrowingScheduler == "ThrowingScheduler"

\* as processReview, but the card is marked reviewed before reviewStep is
\* called
ProcessReviewMarkedFirst(cardId, outcome, sessionContext, now) ==
  /\ ops < MaxOps
  /\ LET mergedContext == mergePolicyContext(deck.config, sessionContext, deck.defaultScheduler)
         marked == [deck EXCEPT !.cards[cardId].lastReviewed = now,
                                !.cards[cardId].reviewCount = @ + 1]
     IN  deck' = IF ~deck.cards[cardId].present
                   THEN [deck EXCEPT !.returned = CardNotFound]
                 ELSE IF mergedContext.scheduler = ThrowingScheduler
                   THEN [marked EXCEPT !.returned = SchedulerThrew]
                 ELSE reviewed(cardId, now,
                        reviewStep[reviewInput(deck.cards[cardId], outcome, mergedContext, now)])
  /\ ops' = ops + 1
  /\ UNCHANGED <<call, runs, tensor, calls, flights>>

\* deck.processReview(cardId, outcome, sessionContext, now).  An exception
\* of scheduler.schedule leaves reviewStep at Step 7 and processReview at
\* its call of reviewStep, before card.updateAfterReview.
ProcessReview(cardId, outcome, sessionContext, now) ==
  /\ ops < MaxOps
  /\ LET mergedContext == mergePolicyContext(deck.config, sessionContext, deck.defaultScheduler)
     IN  deck' = IF ~deck.cards[cardId].present
                   THEN [deck EXCEPT !.returned = CardNotFound]
                 ELSE IF mergedContext.scheduler = ThrowingScheduler
                   THEN [deck EXCEPT !.returned = SchedulerThrew]
                 ELSE reviewed(cardId, now,
                        reviewStep[reviewInput(deck.cards[cardId], outcome, mergedContext, now)])
  /\ ops' = ops + 1
  /\ UNCHANGED <<call, runs, tensor, calls, flights>>

(***************************************************************************)
(* mergePolicyContext called directly                                      *)
(***************************************************************************)
CallMergePolicyContext(deckConfig, sessionContext, defaultScheduler) ==
  /\ Len(calls) < MaxCalls
  /\ calls' = Append(calls, Called("mergePolicyContext",
        [deckConfig |-> deckConfig, sessionContext |-> sessionContext,
         defaultScheduler |-> defaultScheduler],
        mergePolicyContext(deckConfig, sessionContext, defaultScheduler)))
  /\ UNCHANGED <<call, runs, tensor, deck, ops, flights>>

(***************************************************************************)
(* The queue: card.computePriority, queue.getNext, deck.getNextReview,     *)
(* deck.getCard and deck.updateStatistics.  Dates count DS per day;        *)
(* priorities count HS per unit.                                           *)
(***************************************************************************)
HS == 100

PriorityStrategies == {"due_first", "stability_low_first", "mixed"}

isDue(card, now) == card.due <= now
isOverdue(card, now) == card.due < now

\* card.computePriority(now, strategy)
computePriority(card, now, strategy) ==
  CASE strategy = "due_first" ->
         IF isOverdue(card, now) THEN 1000 * HS + ((now - card.due) * HS) \div DS
         ELSE IF isDue(card, now) THEN 500 * HS
         ELSE Max[0, 500 * HS - ((card.due - now) * HS) \div DS]
    [] strategy = "stability_low_first" ->
         (1000 * HS * DS) \div (card.memoryState.S + DS)
    [] strategy = "mixed" ->
         (IF isOverdue(card, now) THEN 1000 * HS + ((now - card.due) * HS * 10) \div DS
          ELSE IF isDue(card, now) THEN 500 * HS
          ELSE 0)
         + (100 * HS * DS) \div (card.memoryState.S + DS)
    [] OTHER -> 0

priorityOf(cardId, now) == computePriority(deck.cards[cardId], now, deck.priorityStrategy)

\* one step of the stable sort: cardId goes behind every card whose
\* priority is not lower
RECURSIVE insertByPriority(_, _, _)
insertByPriority(sorted, cardId, now) ==
  IF sorted = <<>> THEN <<cardId>>
  ELSE IF priorityOf(Head(sorted), now) >= priorityOf(cardId, now)
    THEN <<Head(sorted)>> \o insertByPriority(Tail(sorted), cardId, now)
  ELSE <<cardId>> \o sorted

\* allCards.sort((a, b) => priorityB - priorityA), the clock read at now
RECURSIVE sortByPriority(_, _)
sortByPriority(allCards, now) ==
  IF allCards = <<>> THEN <<>>
  ELSE insertByPriority(sortByPriority(SubSeq(allCards, 1, Len(allCards) - 1), now),
                        allCards[Len(allCards)], now)

\* as sortByPriority, in ascending order
RECURSIVE sortByPriorityAscending(_, _)
sortByPriorityAscending(allCards, now) ==
  IF allCards = <<>> THEN <<>>
  ELSE LET rest == sortByPriorityAscending(Tail(allCards), now)
       IN  IF rest # <<>> /\ priorityOf(Head(allCards), now) > priorityOf(Head(rest), now)
             THEN <<Head(rest)>> \o sortByPriorityAscending(<<Head(allCards)>> \o Tail(rest), now)
           ELSE <<Head(allCards)>> \o rest

\* queue.deferLowPriority(cards, true).review
deferLowPriority(cards, now) ==
  SelectSeq(cards, LAMBDA id : isOverdue(deck.cards[id], now)
                               \/ ~(deck.cards[id].memoryState.S > 10 * DS))

\* queue.enforceDailyCap(selectedCards, dailyCap)
enforceDailyCap(selectedCards, dailyCap) ==
  IF dailyCap = Undefined \/ dailyCap <= 0 THEN selectedCards
  ELSE SubSeq(selectedCards, 1, Min[dailyCap, Len(selectedCards)])

\* selected.slice(0, limit) under limit !== undefined && limit > 0
sliced(selected, limit) ==
  IF limit # Undefined /\ limit > 0 THEN SubSeq(selected, 1, Min[limit, Len(selected)])
  ELSE selected

\* deck.getCard(cardId); NoCard is null
getCard(cardId) == IF deck.cards[cardId].present THEN deck.cards[cardId] ELSE NoCard

\* deck.getCardCount()
getCardCount == Cardinality({id \in CardIds : deck.cards[id].present})

\* as deck.getNextReview, the cards in ascending priority
GetNextReviewAscending(limit, easyDay, now) ==
  /\ ops < MaxOps
  /\ LET sorted == sortByPriorityAscending(deck.order, now)
         selected == IF easyDay \/ deck.easyDayMode THEN deferLowPriority(sorted, now)
                     ELSE sorted
     IN  deck' = [deck EXCEPT !.selected = sliced(selected, limit)]
  /\ ops' = ops + 1
  /\ UNCHANGED <<call, runs, tensor, calls, flights>>

\* deck.getNextReview(limit, easyDay), which is queue.getNext(limit, easyDay)
GetNextReview(limit, easyDay, now) ==
  /\ ops < MaxOps
  /\ LET sorted == sortByPriority(deck.order, now)
         selected == IF easyDay \/ deck.easyDayMode THEN deferLowPriority(sorted, now)
                     ELSE sorted
     IN  deck' = [deck EXCEPT !.selected = sliced(selected, limit)]
  /\ ops' = ops + 1
  /\ UNCHANGED <<call, runs, tensor, calls, flights>>

RECURSIVE sumOfStability(_)
sumOfStability(ids) ==
  IF ids = <<>> THEN 0 ELSE deck.cards[Head(ids)].memoryState.S + sumOfStability(Tail(ids))

\* computeDeckStatistics(cards, dailyCapacity, now): the counts and the
\* average stability
computeDeckStatistics(now) ==
  [totalCards |-> Len(deck.order),
   dueToday |-> Cardinality({id \in deck.queue : isDue(deck.cards[id], now)}),
   backlogSize |-> Cardinality({id \in deck.queue : isOverdue(deck.cards[id], now)}),
   averageStability |-> IF Len(deck.order) > 0
                          THEN sumOfStability(deck.order) \div Len(deck.order) ELSE 0]

\* deck.updateStatistics(now)
UpdateStatistics(now) ==
  /\ ops < MaxOps
  /\ deck' = [deck EXCEPT !.statistics = computeDeckStatistics(now)]
  /\ ops' = ops + 1
  /\ UNCHANGED <<call, runs, tensor, calls, flights>>

(***************************************************************************)
(* Inputs                                                                  *)
(***************************************************************************)
Days(n) == n * DS
Unit(n) == n * PS
LowLoad  == RetentionSignals(5, 100000, 20, 100, 30)
HighLoad == RetentionSignals(30, 200000, 45, 50, 100)
PoorContext == ContextSignals(0, PS, 0)
GoodContext == ContextSignals(PS, Undefined, Undefined)

SameExcept(a, b, fields) ==
  \A f \in DOMAIN a : f \in fields \/ a[f] = b[f]

Completed == 1 .. Len(runs)

(***************************************************************************)
(* Spec: reviewStep under two schedulers.  The first call takes any input  *)
(* of SchedInputs, a later call the same input under any scheduler.        *)
(***************************************************************************)
SchedInputs ==
  { ReviewStepInput(S, Unit(5), t, st, g, FALSE, FALSE, Rt, rs, 0, NoContextSignals,
                    Days(100), sch) :
      S \in {0, Days(10), Days(200)}, t \in {0, Days(5), Days(33)},
      st \in {Undefined, Days(5)}, g \in Grades, Rt \in {Undefined, Unit(2)},
      rs \in {NoRetentionSignals, HighLoad}, sch \in Schedulers }

InvokeSched ==
  /\ call.pc = "idle"
  /\ Len(runs) < MaxRuns
  /\ \E input \in SchedInputs :
       /\ runs # <<>> => SameExcept(input, runs[1].in, {"scheduler"})
       /\ Invoke(input)

Next == InvokeSched \/ Stages

Spec == Init /\ [][Next]_vars

(***************************************************************************)
(* SpecLoad: reviewStep under varying load.  The first call carries        *)
(* retention signals; a later call is the same review with another         *)
(* dueToday, or with the signals omitted.                                  *)
(***************************************************************************)
DueTodays == {30, 50, 100, 200}

LoadInputs ==
  { ReviewStepInput(S, Unit(5), t, Undefined, g, FALSE, FALSE, Rt,
                    RetentionSignals(b, f, 0, cap, due), 0, NoContextSignals,
                    Days(100), "DefaultScheduler") :
      S \in {Days(10), Days(50)}, t \in {Days(5), Days(33)}, g \in Grades,
      Rt \in {Undefined, DEFAULT_R_TARGET}, b \in {0, 100}, f \in {0, PS},
      cap \in {50, 100}, due \in DueTodays }

InvokeLoaded ==
  /\ runs = <<>>
  /\ \E input \in LoadInputs : Invoke(input)

InvokeOtherLoad ==
  /\ runs # <<>>
  /\ \E due \in DueTodays \ {runs[1].in.retentionSignals.dueToday} :
       Invoke([runs[1].in EXCEPT !.retentionSignals.dueToday = due])

InvokeNoSignals ==
  /\ runs # <<>>
  /\ Invoke([runs[1].in EXCEPT !.retentionSignals = NoRetentionSignals])

NextLoad == InvokeLoaded \/ InvokeOtherLoad \/ InvokeNoSignals \/ Stages

SpecLoad == Init /\ [][NextLoad]_vars

(***************************************************************************)
(* SpecTiming: reviewStep under varying timing.  The first call is a       *)
(* review on time; a later call is the same review made early, postponed   *)
(* or delayed.                                                             *)
(***************************************************************************)
OnTimeInputs ==
  { ReviewStepInput(S, D, t, st, g, FALSE, FALSE, Rt, rs, 0, NoContextSignals,
                    Days(100), "DefaultScheduler") :
      S \in {Days(1), Days(5), Days(10), Days(50), Days(100), Days(200)},
      D \in {Unit(1), Unit(5), Unit(10)}, t \in {Days(3), Days(5), Days(10)},
      st \in {Undefined, Days(3), Days(5), Days(10)}, g \in Grades,
      Rt \in {Undefined, Unit(2)}, rs \in {NoRetentionSignals, HighLoad} }

InvokeOnTime ==
  /\ runs = <<>>
  /\ \E input \in OnTimeInputs :
       /\ input.scheduled_t \in {Undefined, input.t}
       /\ Invoke(input)

InvokeEarly ==
  /\ runs # <<>>
  /\ runs[1].in.scheduled_t = Undefined
  /\ \E t_e \in {0, Days(3), Days(5), Days(10)} :
       /\ t_e <= runs[1].in.t
       /\ Invoke([runs[1].in EXCEPT !.early = TRUE, !.t = t_e])

InvokePostponed ==
  /\ runs # <<>>
  /\ runs[1].in.t = Days(5)
  /\ Invoke([runs[1].in EXCEPT !.postponed = TRUE, !.t = Days(10)])

InvokeDelayed ==
  /\ runs # <<>>
  /\ runs[1].in.scheduled_t # Undefined
  /\ \E late \in {Days(1), runs[1].in.t, 9 * runs[1].in.t} :
       Invoke([runs[1].in EXCEPT !.t = @ + late])

NextTiming == InvokeOnTime \/ InvokeEarly \/ InvokePostponed \/ InvokeDelayed \/ Stages

SpecTiming == Init /\ [][NextTiming]_vars

(***************************************************************************)
(* SpecTensor: updateStabilityTensor called directly, once, on any input   *)
(* of TensorInputs                                                         *)
(***************************************************************************)
TensorTimes ==
  { <<Undefined, Undefined>>, <<Days(5), Days(5)>>, <<Days(5), Days(50)>>,
    <<0, 0>>, <<0, Days(5)>> }

TensorInputs ==
  { [S |-> S, R_eff |-> R, grade |-> Rating[g], difficulty |-> D,
     scheduled_t |-> tt[1], actual_t |-> tt[2], contextMultiplier |-> cm,
     sessionMomentum |-> sm] :
      S \in {0, 1, Days(10), Days(36500), Days(200000)},
      R \in {R_MIN, DEFAULT_R_TARGET, R_MAX}, g \in Grades, D \in {Unit(1), Unit(10)},
      tt \in TensorTimes, cm \in {CONTEXT_MIN, PS, CONTEXT_MAX},
      sm \in {MOMENTUM_MIN, PS} }

\* the caller has its input ready
InitTensor ==
  /\ call = IdleCall
  /\ runs = <<>>
  /\ \E input \in TensorInputs : tensor = [NoTensorCall EXCEPT !.in = input]
  /\ deck = NewDeck(EmptyConfig, "DefaultScheduler")
  /\ ops = 0
  /\ calls = <<>>
  /\ flights = [p \in Threads |-> NoFlight]

NextTensor == CallUpdateStabilityTensor

SpecTensor == InitTensor /\ [][NextTensor]_vars

(***************************************************************************)
(* SpecDeck: a Deck, its cards added with a stability within bounds        *)
(***************************************************************************)
DeckConfigs ==
  { EmptyConfig,
    DeckConfig(DEFAULT_R_TARGET, 100, <<"SlowScheduler">>,
               [LowLoad EXCEPT !.dueToday = Undefined], GoodContext) }

InitDeck ==
  /\ call = IdleCall
  /\ runs = <<>>
  /\ tensor = NoTensorCall
  /\ \E config \in DeckConfigs : deck = NewDeck(config, "DefaultScheduler")
  /\ ops = 0
  /\ calls = <<>>
  /\ flights = [p \in Threads |-> NoFlight]

InitialMemoryStates ==
  { MemoryState(MAX_STABILITY, Unit(1), Days(5), Undefined),
    MemoryState(MIN_STABILITY, Unit(10), 0, Undefined),
    MemoryState(Days(10), Unit(5), Days(5), Days(5)) }

NoSession ==
  [R_target |-> Undefined, retentionSignals |-> NoRetentionSignals,
   contextSignals |-> NoContextSignals, reviewsSoFarInSession |-> Undefined,
   scheduler |-> <<>>, early |-> <<>>, postponed |-> <<>>]

SessionContexts ==
  { NoSession,
    [NoSession EXCEPT !.contextSignals = GoodContext, !.early = <<TRUE>>],
    [NoSession EXCEPT !.retentionSignals = HighLoad, !.contextSignals = PoorContext,
                      !.reviewsSoFarInSession = 50,
                      !.scheduler = <<"DefaultScheduler">>],
    [NoSession EXCEPT !.scheduler = <<ThrowingScheduler>>] }

NextDeck ==
  \/ \E cardId \in CardIds, memoryState \in InitialMemoryStates :
       AddCard(cardId, memoryState, Days(100))
  \/ \E cardId \in CardIds : RemoveCard(cardId)
  \/ \E cardId \in CardIds, outcome \in Grades, sessionContext \in SessionContexts :
       ProcessReview(cardId, outcome, sessionContext, Days(100))

SpecDeck == InitDeck /\ [][NextDeck]_vars

(***************************************************************************)
(* SpecGrade: reviewStep under one grade, then the same review under       *)
(* another grade.                                                          *)
(***************************************************************************)
GradeInputs ==
  { ReviewStepInput(S, difficulty, Days(5), scheduled_t, grade, FALSE, FALSE, Undefined,
                    rs, 5, cs, Days(100), "DefaultScheduler") :
      S \in {Days(10), Days(200)}, difficulty \in {Unit(2), Unit(8)},
      scheduled_t \in {Undefined, Days(3)}, grade \in Grades,
      rs \in {NoRetentionSignals, HighLoad}, cs \in {NoContextSignals, PoorContext} }

InvokeGraded ==
  /\ runs = <<>>
  /\ \E input \in GradeInputs : Invoke(input)

InvokeOtherGrade ==
  /\ runs # <<>>
  /\ \E grade \in Grades : Invoke([runs[1].in EXCEPT !.grade = grade])

NextGrade == InvokeGraded \/ InvokeOtherGrade \/ Stages

SpecGrade == Init /\ [][NextGrade]_vars

(***************************************************************************)
(* SpecMerge: mergePolicyContext called once, under three deck configs,    *)
(* both global default schedulers and session contexts that hold all,      *)
(* some or none of the values, a key holding undefined included.           *)
(***************************************************************************)
MergeDeckConfigs ==
  { EmptyConfig,
    DeckConfig(900000, 100, <<"SlowScheduler">>, LowLoad, GoodContext),
    DeckConfig(Undefined, Undefined, <<>>, [LowLoad EXCEPT !.dueToday = Undefined],
               NoContextSignals) }

MergeRetentionSignals ==
  { NoRetentionSignals, HighLoad,
    [NoRetentionSignals EXCEPT !.present = TRUE, !.dueToday = 100],
    [NoRetentionSignals EXCEPT !.present = TRUE, !.dueToday = ExplicitUndefined] }

MergeContextSignals ==
  { NoContextSignals, PoorContext,
    [NoContextSignals EXCEPT !.present = TRUE, !.difficulty = ExplicitUndefined] }

MergeSessions ==
  { [NoSession EXCEPT !.R_target = R_target, !.scheduler = scheduler,
                      !.retentionSignals = retentionSignals,
                      !.contextSignals = contextSignals] :
      R_target \in {Undefined, 850000}, scheduler \in {<<>>, <<"DefaultScheduler">>},
      retentionSignals \in MergeRetentionSignals, contextSignals \in MergeContextSignals }

NextMerge ==
  /\ calls = <<>>
  /\ \E deckConfig \in MergeDeckConfigs, sessionContext \in MergeSessions,
        defaultScheduler \in Schedulers :
       CallMergePolicyContext(deckConfig, sessionContext, defaultScheduler)

SpecMerge == Init /\ [][NextMerge]_vars

(***************************************************************************)
(* SpecQueue: a deck and its queue under every priority strategy, with or  *)
(* without a daily capacity; cards are added, removed, reviewed, selected  *)
(* and counted at two clock readings.                                      *)
(***************************************************************************)
QueueConfigs ==
  { EmptyConfig, DeckConfig(Undefined, 1, <<>>, NoRetentionSignals, NoContextSignals) }

QueueMemoryStates ==
  { MemoryState(Days(5), Unit(5), Days(5), Days(3)),
    MemoryState(Days(20), Unit(5), 0, Undefined) }

QueueDues == {Days(100), Days(110)}
QueueClock == {Days(100), Days(101)}
QueueLimits == {Undefined, 1}
QueueOutcomes == {"Good"}

QueueSessions == { [NoSession EXCEPT !.early = <<TRUE>>, !.postponed = <<TRUE>>] }

InitQueue ==
  /\ call = IdleCall
  /\ runs = <<>>
  /\ tensor = NoTensorCall
  /\ \E config \in QueueConfigs, strategy \in PriorityStrategies :
       /\ config = EmptyConfig \/ strategy = "due_first"
       /\ deck = [NewDeck(config, "DefaultScheduler") EXCEPT !.priorityStrategy = strategy]
  /\ ops = 0
  /\ calls = <<>>
  /\ flights = [p \in Threads |-> NoFlight]

Adds(cardId) ==
  \E memoryState \in QueueMemoryStates, due \in QueueDues : AddCard(cardId, memoryState, due)

Reviews(cardId, now) ==
  \E outcome \in QueueOutcomes, sessionContext \in QueueSessions :
    ProcessReview(cardId, outcome, sessionContext, now)

\* what every successful processReview step of cardId shows: the card was
\* there, a result was returned, and the other cards, the order, the last
\* selection and the last statistics are as they were
ReviewedOnly(cardId) ==
  /\ deck.cards[cardId].present
  /\ deck'.returned.status = "ok"
  /\ \A other \in CardIds \ {cardId} : deck'.cards[other] = deck.cards[other]
  /\ deck'.order = deck.order
  /\ deck'.selected = deck.selected
  /\ deck'.statistics = deck.statistics

\* a successful processReview step of cardId at now
Reviewed(cardId, now) == ReviewedOnly(cardId) /\ Reviews(cardId, now)

Selects(limit, now) == \E easyDay \in BOOLEAN : GetNextReview(limit, easyDay, now)

NextQueue ==
  \/ \E cardId \in CardIds : Adds(cardId)
  \/ \E cardId \in CardIds : RemoveCard(cardId)
  \/ \E cardId \in CardIds, now \in QueueClock : Reviews(cardId, now)
  \/ \E limit \in QueueLimits, now \in QueueClock : Selects(limit, now)
  \/ \E now \in QueueClock : UpdateStatistics(now)

SpecQueue == InitQueue /\ [][NextQueue]_vars

\* computeEffectiveState called directly, then called again at another
\* elapsed time or with other flags, everything else as in the call before
EffectiveTimes == {0, Days(1), Days(3), Days(5), Days(8), Days(10), Days(15)}
ScheduledTimes == {Undefined, 0, Days(5), Days(10)}
EffectiveInputs ==
  [S : {Days(10)}, t : EffectiveTimes, scheduled_t : ScheduledTimes,
   early : BOOLEAN, postponed : BOOLEAN, contextMultiplier : {PS, CONTEXT_MIN}]

LastCall == calls[Len(calls)]

CallEffective == calls = <<>> /\ \E input \in EffectiveInputs : CallComputeEffectiveState(input)

CallEffectiveAtOtherTime ==
  /\ calls # <<>>
  /\ \E t \in EffectiveTimes : CallComputeEffectiveState([LastCall.in EXCEPT !.t = t])

CallEffectiveWithOtherFlags ==
  /\ calls # <<>>
  /\ \E early \in BOOLEAN, postponed \in BOOLEAN :
       CallComputeEffectiveState([LastCall.in EXCEPT !.early = early, !.postponed = postponed])

NextEffective == CallEffective \/ CallEffectiveAtOtherTime \/ CallEffectiveWithOtherFlags

SpecEffective == Init /\ [][NextEffective]_vars

(***************************************************************************)
(* SpecSession: reviewStep at varying points of a session.  The first call *)
(* is the first review of a session, without context signals; a later call *)
(* is the same review later in the session and under other context         *)
(* signals.                                                                *)
(***************************************************************************)
SessionReviews == {0 - 5, 0, 1, 5, 6, 50}
ZeroCapacity == RetentionSignals(0, 0, 0, 0, 10)
BestContext == ContextSignals(Unit(5), 0 - Unit(2), Unit(3))
WorstContext == ContextSignals(0 - Unit(3), Unit(4), 0 - Unit(1))
Contexts == {NoContextSignals, PoorContext, GoodContext, BestContext, WorstContext}

SessionInputs ==
  { ReviewStepInput(S, Unit(5), Days(5), Undefined, g, FALSE, FALSE, Undefined,
                    rs, 0, NoContextSignals, Days(100), "DefaultScheduler") :
      S \in {Days(10), Days(200)}, g \in {"Again", "Good", "Easy"},
      rs \in {NoRetentionSignals, LowLoad, HighLoad, ZeroCapacity} }

InvokeSessionStart ==
  /\ runs = <<>>
  /\ \E input \in SessionInputs : Invoke(input)

InvokeInSession ==
  /\ runs # <<>>
  /\ \E n \in SessionReviews, cs \in Contexts :
       Invoke([runs[1].in EXCEPT !.reviewsSoFarInSession = n, !.contextSignals = cs])

NextSession == InvokeSessionStart \/ InvokeInSession \/ Stages

SpecSession == Init /\ [][NextSession]_vars

(***************************************************************************)
(* SpecPolicy: one policy function called directly, then called again with *)
(* another dueToday (computeLoadPressure, computeRTarget) or another        *)
(* strength (applyAdaptiveRetention).                                      *)
(***************************************************************************)
PressureDues == {0 - 5, 0, 1, 30, 50, 59, 100, 200}
Capacities == {0 - 10, 0, 50, 100}
TargetDues == {0, 30, 100, 120, 300}
TargetSignals ==
  { [RetentionSignals(b, f, sl, cap, due) EXCEPT !.recentSuccessRate = rsr,
                                                 !.userIntent = ui] :
      b \in {0, 30, 200}, f \in {0, 200000, PS}, sl \in {0, 45},
      cap \in {0, 50, 100}, due \in TargetDues,
      rsr \in {Undefined, 500000}, ui \in {Undefined, PS} }
Recalls == {R_MIN, 300000, 500000, 900000, R_MAX}
Targets == {R_MIN, 500000, R_TARGET_MIN, 900000, R_TARGET_MAX, R_MAX}
Strengths == {0, 250000, 425000, 500000, PS}

CallPolicy ==
  /\ calls = <<>>
  /\ \/ \E dueToday \in PressureDues, dailyCapacity \in Capacities :
          CallComputeLoadPressure(dueToday, dailyCapacity)
     \/ \E signals \in TargetSignals : CallComputeRTarget(signals)
     \/ \E R_eff \in Recalls, R_target \in Targets, strength \in Strengths :
          CallApplyAdaptiveRetention(R_eff, R_target, strength)

CallPressureAtOtherLoad ==
  /\ calls # <<>> /\ LastCall.fn = "computeLoadPressure"
  /\ \E dueToday \in PressureDues :
       CallComputeLoadPressure(dueToday, LastCall.in.dailyCapacity)

CallTargetAtOtherLoad ==
  /\ calls # <<>> /\ LastCall.fn = "computeRTarget"
  /\ \E dueToday \in TargetDues :
       CallComputeRTarget([LastCall.in EXCEPT !.dueToday = dueToday])

CallAdaptiveAtOtherStrength ==
  /\ calls # <<>> /\ LastCall.fn = "applyAdaptiveRetention"
  /\ \E strength \in Strengths :
       CallApplyAdaptiveRetention(LastCall.in.R_eff, LastCall.in.R_target, strength)

NextPolicy ==
  CallPolicy \/ CallPressureAtOtherLoad \/ CallTargetAtOtherLoad \/ CallAdaptiveAtOtherStrength

SpecPolicy == Init /\ [][NextPolicy]_vars

(***************************************************************************)
(* SpecConcurrent: two threads, each calling reviewStep once, their stages *)
(* interleaved in every order.                                             *)
(***************************************************************************)
ConcurrentInputs ==
  { ReviewStepInput(S, Unit(5), Days(5), Days(3), "Easy", FALSE, FALSE, Undefined, rs, 5,
                    NoContextSignals, Days(100), "DefaultScheduler") :
      S \in {Days(10), Days(50)}, rs \in {NoRetentionSignals, HighLoad} }

NextConcurrent ==
  \/ \E p \in Threads, input \in ConcurrentInputs : Enter(p, input)
  \/ \E p \in Threads : Advance(p)

SpecConcurrent == Init /\ [][NextConcurrent]_vars

(***************************************************************************)
(* Claims                                                                  *)
(***************************************************************************)
\* C1: scheduler isolation. Two completed reviewStep calls whose inputs are
\* identical except for the scheduler return identical S_new, R_eff and
\* t_eff; only nextInterval and due may differ.
C1_SchedulerIsolation ==
  \A i, j \in Completed :
    SameExcept(runs[i].in, runs[j].in, {"scheduler"}) =>
      /\ runs[i].out.S_new = runs[j].out.S_new
      /\ runs[i].out.R_eff = runs[j].out.R_eff
      /\ runs[i].out.t_eff = runs[j].out.t_eff

\* two calls that differ in the scheduler only, and the schedulers answered
\* differently
C1_Witness ==
  \E i, j \in Completed :
    /\ SameExcept(runs[i].in, runs[j].in, {"scheduler"})
    /\ runs[i].in.scheduler # runs[j].in.scheduler
    /\ runs[i].out.nextInterval # runs[j].out.nextInterval
    /\ runs[i].out.S_new = runs[j].out.S_new

HandedToScheduler(sched, S_new, R_eff, t_eff) ==
  /\ Len(sched) = 1
  /\ sched[1].S_eff = S_new
  /\ sched[1].R_eff = R_eff
  /\ sched[1].t_eff = t_eff

\* C2: every reviewStep call invokes scheduler.schedule exactly once, as its
\* last stage (not before S_new and the adjusted R_eff are final), and the
\* S_eff, R_eff and t_eff handed to the scheduler are exactly the S_new, R_eff
\* and t_eff that the call returns.
C2_ScheduleOnceLast ==
  /\ call.pc # "return" => call.sched = <<>>
  /\ call.pc = "return" =>
       HandedToScheduler(call.sched, call.l.S_new, call.l.adjustedR_eff, call.l.t_eff)
  /\ \A i \in Completed :
       HandedToScheduler(runs[i].sched, runs[i].out.S_new, runs[i].out.R_eff,
                         runs[i].out.t_eff)

\* a completed call whose load clamp ran, whose S_new differs from the S it
\* was entered with, and whose scheduler was called once
C2_Witness ==
  \E i \in Completed :
    /\ runs[i].in.retentionSignals.present
    /\ runs[i].in.S > 0
    /\ runs[i].out.S_new # runs[i].in.S
    /\ Len(runs[i].sched) = 1
    /\ runs[i].sched[1].S_eff = runs[i].out.S_new

\* two inputs that carry retention signals and differ in dueToday at most
SameExceptDueToday(a, b) ==
  /\ a.retentionSignals.present
  /\ b.retentionSignals.present
  /\ SameExcept(a, b, {"retentionSignals"})
  /\ SameExcept(a.retentionSignals, b.retentionSignals, {"dueToday"})

\* C3: higher load never increases stability. For fixed S, difficulty, t,
\* grade, session and context inputs and fixed other retention signals,
\* increasing retentionSignals.dueToday never increases the S_new returned by
\* reviewStep.
C3_HigherLoadNeverIncreasesStability ==
  \A i, j \in Completed :
    ( /\ SameExceptDueToday(runs[i].in, runs[j].in)
      /\ runs[i].in.retentionSignals.dueToday <= runs[j].in.retentionSignals.dueToday )
    => runs[j].out.S_new <= runs[i].out.S_new

\* C4: load-monotonicity safety clamp. Whenever retentionSignals are supplied
\* and the load pressure is below 1.0, the S_new returned by reviewStep is no
\* larger than the S_new returned for the same input with retentionSignals
\* omitted.
C4_LoadClamp ==
  \A i, j \in Completed :
    ( /\ runs[i].in.retentionSignals.present
      /\ computeLoadPressure[runs[i].in.retentionSignals.dueToday,
                             runs[i].in.retentionSignals.dailyCapacity] < PS
      /\ ~runs[j].in.retentionSignals.present
      /\ SameExcept(runs[i].in, runs[j].in, {"retentionSignals"}) )
    => runs[i].out.S_new <= runs[j].out.S_new

\* C5: all stored stabilities stay within [0.1, 36500] days. After any
\* sequence of Deck.processReview calls on cards whose initial S is within
\* [0.1, 36500], every card's memoryState.S, and the newMemoryState.S that
\* processReview returned, is within [0.1, 36500].
C5_StoredStabilityBounded ==
  /\ \A cardId \in CardIds :
       deck.cards[cardId].present =>
         /\ MIN_STABILITY <= deck.cards[cardId].memoryState.S
         /\ deck.cards[cardId].memoryState.S <= MAX_STABILITY
  /\ deck.returned.status = "ok" =>
       /\ MIN_STABILITY <= deck.returned.newMemoryState.S
       /\ deck.returned.newMemoryState.S <= MAX_STABILITY

\* C6: updateStabilityTensor returns a value within [0.1, 36500] for every
\* finite input: any S, R_eff, grade, difficulty, multipliers, and any
\* scheduled_t >= 0 and actual_t >= 0, scheduled_t = 0 included.
C6_TensorStabilityBounded ==
  tensor.called => MIN_STABILITY <= tensor.out /\ tensor.out <= MAX_STABILITY

\* C7: the R_eff returned by reviewStep is within [0.01, 0.99] for every
\* finite input, an explicit R_target outside [0, 1] and very large or very
\* small elapsed times included.
C7_REffBounded ==
  \A i \in Completed : R_MIN <= runs[i].out.R_eff /\ runs[i].out.R_eff <= R_MAX

\* runs[i] is runs[j] made early, at an elapsed time no later, with no
\* scheduled_t
EarlyOf(i, j) ==
  /\ runs[i].in.early
  /\ ~runs[j].in.early
  /\ runs[j].in.scheduled_t = Undefined
  /\ runs[i].in.t <= runs[j].in.t
  /\ SameExcept(runs[i].in, runs[j].in, {"early", "t"})

\* C8: early never punishes. For every grade, every S > 0 of a MemoryState,
\* and fixed difficulty and other inputs (no scheduled_t), reviewStep with
\* early = true at elapsed time t_e returns S_new <= the S_new of reviewStep
\* with early = false at elapsed time t_o whenever t_e <= t_o.
C8_EarlyNeverPunishes ==
  \A i, j \in Completed : EarlyOf(i, j) => runs[i].out.S_new <= runs[j].out.S_new

\* an early review at the same elapsed time as the review on time, which
\* returned a strictly smaller S_new
C8_Witness ==
  \E i, j \in Completed :
    /\ EarlyOf(i, j)
    /\ runs[i].in.t = runs[j].in.t
    /\ runs[i].out.S_new < runs[j].out.S_new

\* runs[i] is runs[j], a review at t = 5, postponed to t = 10
PostponedOf(i, j) ==
  /\ runs[i].in.postponed
  /\ runs[i].in.t = Days(10)
  /\ ~runs[j].in.postponed
  /\ runs[j].in.t = Days(5)
  /\ runs[j].in.S > 0
  /\ SameExcept(runs[i].in, runs[j].in, {"postponed", "t"})

\* the forgetting-curve value of Step 1 before its clamp to [0.01, 0.99]
rawRecall(input) ==
  forgetting_curve[default_w,
                   effectiveTime[input.t, input.scheduled_t, input.early,
                                 input.postponed],
                   input.S]

\* a clamp to [0.01, 0.99] binds: that of computeEffectiveState on both raw
\* values, or that of applyAdaptiveRetention on the value returned
ClampBinds(a, b, R_eff) ==
  \/ rawRecall(a) >= R_MAX /\ rawRecall(b) >= R_MAX
  \/ rawRecall(a) <= R_MIN /\ rawRecall(b) <= R_MIN
  \/ R_eff \in {R_MIN, R_MAX}

\* C9, as stated: postponement never rewards. For every grade and every
\* valid S > 0 and difficulty held fixed, reviewStep(t=10, postponed=true).R_eff
\* is strictly smaller than reviewStep(t=5, postponed=false).R_eff.
C9_PostponementStrictlySmaller ==
  \A i, j \in Completed : PostponedOf(i, j) => runs[i].out.R_eff < runs[j].out.R_eff

\* C9, amended: reviewStep(t=10, postponed=true).R_eff is never larger than
\* reviewStep(t=5, postponed=false).R_eff, and it is strictly smaller unless
\* a clamp to [0.01, 0.99] binds.
C9_PostponementNeverRewards ==
  \A i, j \in Completed :
    PostponedOf(i, j) =>
      /\ runs[i].out.R_eff <= runs[j].out.R_eff
      /\ runs[i].out.R_eff = runs[j].out.R_eff =>
           ClampBinds(runs[i].in, runs[j].in, runs[i].out.R_eff)

\* a postponed review that returned the R_eff of the review at t = 5, both
\* raw forgetting-curve values being above 0.99
C9_Witness ==
  \E i, j \in Completed :
    /\ PostponedOf(i, j)
    /\ runs[i].out.R_eff = runs[j].out.R_eff
    /\ runs[i].out.R_eff < R_MAX
    /\ runs[i].in.R_target = Undefined

\* C10: review-hoarding prevention. For every S, difficulty, grade and
\* scheduled_t > 0, a delayed review (any t > scheduled_t) never yields a
\* higher S_new from reviewStep than the review on time (t = scheduled_t)
\* with otherwise identical inputs.
C10_HoardingPrevention ==
  \A i, j \in Completed :
    ( /\ runs[j].in.scheduled_t # Undefined
      /\ runs[j].in.scheduled_t > 0
      /\ runs[j].in.t = runs[j].in.scheduled_t
      /\ runs[i].in.t > runs[i].in.scheduled_t
      /\ SameExcept(runs[i].in, runs[j].in, {"t"}) )
    => runs[i].out.S_new <= runs[j].out.S_new

\* the calls of one component function in the log
CallsOf(fn) == {i \in 1..Len(calls) : calls[i].fn = fn}

\* C11: effective time is monotone in elapsed time. For two direct calls of
\* computeEffectiveState that differ in t only, with scheduled_t present
\* (>= 0) and 0 <= t1 <= t2, t_eff(t1) <= t_eff(t2); and once the review is
\* at or past its scheduled time a longer delay is charged strictly more:
\* scheduled_t <= t1 < t2 implies t_eff(t1) < t_eff(t2), which is the chain
\* t_eff(scheduled_t) < t_eff(t1) < t_eff(t2) taken two calls at a time.
C11_EffectiveTimeMonotone ==
  \A i \in CallsOf("computeEffectiveState"), j \in CallsOf("computeEffectiveState") :
    (/\ SameExcept(calls[i].in, calls[j].in, {"t"})
     /\ calls[i].in.scheduled_t # Undefined /\ calls[i].in.scheduled_t >= 0
     /\ 0 <= calls[i].in.t /\ calls[i].in.t <= calls[j].in.t)
    => /\ calls[i].out.t_eff <= calls[j].out.t_eff
       /\ (calls[i].in.scheduled_t <= calls[i].in.t /\ calls[i].in.t < calls[j].in.t)
            => calls[i].out.t_eff < calls[j].out.t_eff

\* two delays of one card, scheduled at 5 days: seen after 8 and after 10,
\* charged 10.5 and 12.5 days
C11_Witness ==
  \E i \in CallsOf("computeEffectiveState"), j \in CallsOf("computeEffectiveState") :
    /\ SameExcept(calls[i].in, calls[j].in, {"t"})
    /\ calls[i].in.scheduled_t = Days(5) /\ ~calls[i].in.early
    /\ calls[i].in.t = Days(8) /\ calls[j].in.t = Days(10)
    /\ calls[i].out.t_eff = 105000 /\ calls[j].out.t_eff = 125000

\* C12: no double penalty. Two direct calls of computeEffectiveState that
\* differ in the postponed flag only, with scheduled_t present, return the
\* same t_eff and the same R_eff: the x1.15 factor is never applied on top of
\* the anti-hoarding adjustment.
C12_NoDoublePenalty ==
  \A i \in CallsOf("computeEffectiveState"), j \in CallsOf("computeEffectiveState") :
    (/\ SameExcept(calls[i].in, calls[j].in, {"postponed"})
     /\ calls[i].in.scheduled_t # Undefined)
    => calls[i].out = calls[j].out

\* a delayed review (10 days against 5 scheduled), once flagged postponed
\* and once not: both charged the anti-hoarding 12.5 days
C12_Witness ==
  \E i \in CallsOf("computeEffectiveState"), j \in CallsOf("computeEffectiveState") :
    /\ SameExcept(calls[i].in, calls[j].in, {"postponed"})
    /\ calls[i].in.postponed /\ ~calls[j].in.postponed /\ ~calls[i].in.early
    /\ calls[i].in.scheduled_t = Days(5) /\ calls[i].in.t = Days(10)
    /\ calls[i].out.t_eff = 125000 /\ calls[j].out.t_eff = 125000

\* input the specification has reviewStep reject with InvalidInput (grades
\* are drawn from Grades, so InvalidGrade does not arise)
InvalidInput(input) ==
  \/ input.S <= 0
  \/ input.retentionSignals.present /\ input.retentionSignals.dailyCapacity < 0
  \/ IsNaN(input.S) \/ IsNaN(input.t) \/ IsNaN(input.difficulty)

\* C13: reviewStep rejects invalid input. No call with S <= 0, a negative
\* dailyCapacity or a non-finite number reaches the scheduler, and none
\* returns a ReviewStepOutput.
C13_RejectsInvalidInput ==
  /\ call.sched # <<>> => ~InvalidInput(call.input)
  /\ \A i \in Completed : ~InvalidInput(runs[i].in)

\* C14: a failing review leaves all state untouched. Every processReview
\* step that throws (unknown card id, or an exception of the scheduler)
\* leaves every card's memoryState, due, lastReviewed and reviewCount and the
\* membership of the deck and of its queue as they were. Stated from the
\* other end: a step that ends with an error as the last result and changes
\* a card or the membership is no processReview step (it is an addCard or a
\* removeCard that follows the failure).
C14_FailedReviewLeavesStateUntouched ==
  [][(/\ deck'.returned \in {CardNotFound, SchedulerThrew}
      /\ deck'.cards # deck.cards \/ deck'.queue # deck.queue)
     => ~ \E cardId \in CardIds, outcome \in Grades, sessionContext \in SessionContexts :
            ProcessReview(cardId, outcome, sessionContext, Days(100))]_vars

\* a card reviewed once, then a review of it whose scheduler threw
C14_Witness ==
  /\ deck.returned = SchedulerThrew
  /\ \E cardId \in CardIds :
       /\ deck.cards[cardId].present /\ cardId \in deck.queue
       /\ deck.cards[cardId].reviewCount = 1
       /\ deck.cards[cardId].lastReviewed = Days(100)

C16_SessionAndContextActOnStabilityOnly ==
  \A i \in Completed, j \in Completed :
    SameExcept(runs[i].in, runs[j].in, {"reviewsSoFarInSession", "contextSignals"})
    => /\ runs[i].out.R_eff = runs[j].out.R_eff
       /\ runs[i].out.t_eff = runs[j].out.t_eff
       /\ runs[i].sched[1].R_eff = runs[j].sched[1].R_eff
       /\ runs[i].sched[1].t_eff = runs[j].sched[1].t_eff

\* the same review at the start of a session and fifty reviews on under poor
\* context signals: another S_new, the same R_eff and t_eff
C16_Witness ==
  \E i \in Completed, j \in Completed :
    /\ SameExcept(runs[i].in, runs[j].in, {"reviewsSoFarInSession", "contextSignals"})
    /\ runs[i].in.reviewsSoFarInSession = 0 /\ ~runs[i].in.contextSignals.present
    /\ runs[j].in.reviewsSoFarInSession = 50 /\ runs[j].in.contextSignals = PoorContext
    /\ runs[i].out.S_new # runs[j].out.S_new
    /\ runs[i].out.R_eff = runs[j].out.R_eff /\ runs[i].sched[1].t_eff = Days(5)

\* the call has applied its multipliers (Step 6 is done)
MultipliersApplied == call.pc \in {"clamp", "step7", "return"}

\* C20: policy effects are bounded. Once a reviewStep call has applied its
\* three multipliers, the session momentum is within [0.9, 1.0], the load
\* pressure within [0.85, 1.0] and the context multiplier within
\* [0.85, 1.05]; without contextSignals the context multiplier is 1.0.
C20_PolicyEffectsBounded ==
  MultipliersApplied =>
    /\ 900000 <= call.l.sessionMomentum /\ call.l.sessionMomentum <= PS
    /\ 850000 <= call.l.pressure /\ call.l.pressure <= PS
    /\ 850000 <= call.l.contextMultiplier /\ call.l.contextMultiplier <= 1050000
    /\ ~call.input.contextSignals.present => call.l.contextMultiplier = PS

\* a call with all three multipliers at a bound: fifty reviews into the
\* session, no capacity, and context signals beyond their range
C20_Witness ==
  /\ call.pc = "return"
  /\ call.input.reviewsSoFarInSession = 50 /\ call.l.sessionMomentum = 900000
  /\ call.input.retentionSignals = ZeroCapacity /\ call.l.pressure = 850000
  /\ call.input.contextSignals = BestContext /\ call.l.contextMultiplier = 1050000

\* C17: load pressure. Every direct call computeLoadPressure(dueToday,
\* dailyCapacity) returns 1.0 when dueToday <= 0, 0.85 when dueToday > 0 and
\* dailyCapacity <= 0, and dailyCapacity / dueToday clamped to [0.85, 1.0]
\* otherwise; the result is within [0.85, 1.0]; and of two calls with the
\* same dailyCapacity the one with the larger dueToday returns no more.
C17_LoadPressure ==
  /\ \A i \in CallsOf("computeLoadPressure") :
       LET dueToday == calls[i].in.dueToday
           dailyCapacity == calls[i].in.dailyCapacity
           quotient == DivPS[dailyCapacity, dueToday]
       IN  /\ dueToday <= 0 => calls[i].out = PS
           /\ dueToday > 0 /\ dailyCapacity <= 0 => calls[i].out = 850000
           /\ dueToday > 0 /\ dailyCapacity > 0 =>
                calls[i].out = IF quotient < 850000 THEN 850000
                               ELSE IF quotient > PS THEN PS ELSE quotient
           /\ 850000 <= calls[i].out /\ calls[i].out <= PS
  /\ \A i \in CallsOf("computeLoadPressure"), j \in CallsOf("computeLoadPressure") :
       (/\ calls[i].in.dailyCapacity = calls[j].in.dailyCapacity
        /\ calls[i].in.dueToday <= calls[j].in.dueToday)
       => calls[j].out <= calls[i].out

\* capacity 50: 59 due gives 50/59 = 0.847, clamped to 0.85; no card due
\* gives 1.0
C17_Witness ==
  \E i \in CallsOf("computeLoadPressure"), j \in CallsOf("computeLoadPressure") :
    /\ calls[i].in.dailyCapacity = 50 /\ calls[j].in.dailyCapacity = 50
    /\ calls[i].in.dueToday = 0 /\ calls[i].out = PS
    /\ calls[j].in.dueToday = 59 /\ calls[j].out = 850000

\* the overload penalty as the specification words it: 0.05 * min(1,
\* loadRatio - 1) when loadRatio = dueToday / dailyCapacity exceeds 1 (a
\* positive dueToday over a dailyCapacity of 0 is Infinity), else 0
statedOverloadPenalty(signals) ==
  IF signals.dailyCapacity = 0
    THEN (IF signals.dueToday > 0 THEN 50000 ELSE 0)
  ELSE IF DivPS[signals.dueToday, signals.dailyCapacity] > PS
    THEN MulPS[50000, Min[PS, DivPS[signals.dueToday, signals.dailyCapacity] - PS]]
  ELSE 0

statedRTarget(signals) ==
  LET successRate == IF signals.recentSuccessRate # Undefined
                       THEN signals.recentSuccessRate
                       ELSE PS - signals.recentFailureRate
      raw == PS - DivPS[signals.backlogSize, 100] - DivPS[signals.sessionLength, 120]
      intent == IF signals.userIntent # Undefined THEN signals.userIntent
                ELSE IF raw < 0 THEN 0 ELSE IF raw > PS THEN PS ELSE raw
      target == 850000 + MulPS[100000, successRate] + MulPS[20000, intent]
                  - statedOverloadPenalty(signals)
  IN  IF target < 750000 THEN 750000 ELSE IF target > 970000 THEN 970000 ELSE target

\* C18: dynamic retention target. Every direct call computeRTarget(signals)
\* with dailyCapacity >= 0 returns R_base + gamma * successRate + delta *
\* intent - overloadPenalty clamped to [0.75, 0.97], with the overload
\* penalty as the specification words it.
C18_RTarget ==
  \A i \in CallsOf("computeRTarget") :
    calls[i].in.dailyCapacity >= 0 => calls[i].out = statedRTarget(calls[i].in)

C21_ConcurrentCallsAsAlone ==
  \A p \in Threads :
    flights[p].pc = "done" => flights[p].out = <<reviewStep[flights[p].input]>>

\* two calls with different inputs, both returned, each interleaved with the
\* other
C21_Witness ==
  /\ flights["p"].pc = "done" /\ flights["q"].pc = "done"
  /\ flights["p"].interleaved /\ flights["q"].interleaved
  /\ flights["p"].input.S # flights["q"].input.S
  /\ flights["p"].out # flights["q"].out

\* C22: after a successful processReview the card's stored memoryState is
\* the returned newMemoryState, with S the returned S, the difficulty the
\* card had before, t = 0 and no scheduled_t, and the card's stored due is
\* the returned due; the MemoryState objects handed to addCard are as they
\* were. Stated from the other end: a step after which the card does not
\* hold the returned state, or an object handed to addCard has changed, is
\* no successful processReview of that card.
C22_ReviewStoresReturnedState ==
  [][\A cardId \in CardIds :
       (/\ ReviewedOnly(cardId)
        /\ ~ (/\ deck'.cards[cardId].memoryState = deck'.returned.newMemoryState
              /\ deck'.cards[cardId].memoryState =
                   MemoryState(deck'.returned.newMemoryState.S,
                               deck.cards[cardId].memoryState.difficulty, 0, Undefined)
              /\ deck'.cards[cardId].due = deck'.returned.due
              /\ deck'.passed = deck.passed))
       => ~ \E now \in QueueClock : Reviews(cardId, now)]_vars

\* a card added with t = 5 days and scheduled_t = 3 days, reviewed since:
\* its stored state is the returned one and differs from the object handed
\* to addCard, which still shows t = 5 days
C22_Witness ==
  /\ deck.returned.status = "ok"
  /\ \E cardId \in CardIds :
       /\ deck.cards[cardId].reviewCount = 1
       /\ deck.cards[cardId].memoryState = deck.returned.newMemoryState
       /\ deck.cards[cardId].due = deck.returned.due
       /\ deck.cards[cardId].memoryState.t = 0
       /\ deck.passed[cardId] = MemoryState(Days(5), Unit(5), Days(5), Days(3))
       /\ deck.cards[cardId].memoryState.S # Days(5)

\* C23: the deck's card map and its queue hold the same card ids, namely
\* the ids added and not removed since. Every step leaves the two with the
\* same ids, getCard returning the card under each of them and null under
\* every other id; addCard(id) adds id to both, the card being the one just
\* built, and leaves the count as it was when id was there already;
\* removeCard(id) takes id from both; every other step leaves the ids and
\* the order of the queue as they were.
C23_DeckAndQueueHoldSameCards ==
  [][/\ {id \in CardIds : deck'.cards[id].present} = deck'.queue
     /\ {deck'.order[i] : i \in 1 .. Len(deck'.order)} = deck'.queue
     /\ getCardCount' = Len(deck'.order)
     /\ \A id \in CardIds :
          getCard(id)' = IF id \in deck'.queue THEN deck'.cards[id] ELSE NoCard
     /\ \A cardId \in CardIds :
          /\ Adds(cardId) =>
               /\ deck'.queue = deck.queue \cup {cardId}
               /\ getCard(cardId)'.present /\ getCard(cardId)'.reviewCount = 0
               /\ getCard(cardId)'.memoryState = deck'.passed[cardId]
               /\ cardId \in deck.queue => getCardCount' = getCardCount
               /\ cardId \notin deck.queue => getCardCount' = getCardCount + 1
          /\ RemoveCard(cardId) =>
               /\ deck'.queue = deck.queue \ {cardId}
               /\ getCard(cardId)' = NoCard
     /\ (~ \E cardId \in CardIds : Adds(cardId) \/ RemoveCard(cardId))
          => deck'.queue = deck.queue /\ deck'.order = deck.order]_vars

\* both cards added and the second removed: one card is left in the deck
\* and in the queue
C23_Witness ==
  /\ deck.queue = {"c1"} /\ deck.order = <<"c1">>
  /\ getCard("c1").present /\ getCard("c2") = NoCard
  /\ deck.passed["c2"] # NoCard.memoryState

\* C24: getNext returns the queue's cards in non-increasing priority under
\* the queue's strategy at the clock reading of the call: under due_first
\* no card that is not overdue precedes an overdue one, under
\* stability_low_first no card precedes one of lower stability. No card is
\* returned twice and none that is not in the queue. Without an easy day the
\* result is the whole queue, or under a limit > 0 its min(limit, size)
\* cards of highest priority. The call leaves the cards, the queue and its
\* order as they were.
C24_GetNextInPriorityOrder ==
  [][\A limit \in QueueLimits, now \in QueueClock, easyDay \in BOOLEAN :
       GetNextReview(limit, easyDay, now) =>
         LET selected == deck'.selected
             at == 1 .. Len(selected)
             returned == {selected[i] : i \in at}
         IN  /\ \A i \in at, j \in at :
                  i < j => /\ priorityOf(selected[i], now) >= priorityOf(selected[j], now)
                           /\ selected[i] # selected[j]
             /\ deck.priorityStrategy = "due_first" =>
                  \A i \in at, j \in at :
                    (i < j /\ isOverdue(deck.cards[selected[j]], now))
                      => isOverdue(deck.cards[selected[i]], now)
             /\ deck.priorityStrategy = "stability_low_first" =>
                  \A i \in at, j \in at :
                    i < j => deck.cards[selected[i]].memoryState.S
                               <= deck.cards[selected[j]].memoryState.S
             /\ returned \subseteq deck.queue
             /\ limit # Undefined => Len(selected) <= limit
             /\ ~easyDay =>
                  /\ limit = Undefined => returned = deck.queue
                  /\ limit # Undefined =>
                       /\ Len(selected) = Min[limit, Cardinality(deck.queue)]
                       /\ \A id \in returned, other \in deck.queue \ returned :
                            priorityOf(id, now) >= priorityOf(other, now)
             /\ deck'.cards = deck.cards
             /\ deck'.queue = deck.queue /\ deck'.order = deck.order]_vars

\* a due_first queue that returned the card added second before the card
\* added first, the second being due earlier
C24_Witness ==
  /\ deck.priorityStrategy = "due_first"
  /\ deck.order = <<"c1", "c2">>
  /\ deck.selected = <<"c2", "c1">>
  /\ deck.cards["c2"].due < deck.cards["c1"].due

HasValue(value) == value # Undefined /\ value # ExplicitUndefined

\* the session's value of a key, else the deck's default
statedMerge(deckDefaults, runtimeContext, f) ==
  IF runtimeContext.present /\ HasValue(runtimeContext[f]) THEN runtimeContext[f]
  ELSE IF deckDefaults.present /\ HasValue(deckDefaults[f]) THEN deckDefaults[f]
  ELSE Undefined

RequiredSignals ==
  {"backlogSize", "recentFailureRate", "sessionLength", "dailyCapacity", "dueToday"}

\* C25: mergePolicyContext gives runtime values precedence over deck
\* defaults, field by field. R_target is the session's, else the deck's
\* defaultRetentionTarget; the scheduler is the session's, else the deck's,
\* else the global default; every retentionSignals and contextSignals field
\* is the session's value, else the deck's default; the merged
\* retentionSignals are passed on exactly when the five required fields are
\* all there after merging, and are undefined otherwise.
C25_RuntimeOverDeckDefaults ==
  \A i \in CallsOf("mergePolicyContext") :
    LET deckConfig == calls[i].in.deckConfig
        sessionContext == calls[i].in.sessionContext
        merged == calls[i].out
        signals == [f \in DOMAIN NoRetentionSignals \ {"present"} |->
                      statedMerge(deckConfig.defaultRetentionSignals,
                                  sessionContext.retentionSignals, f)]
        context == [f \in DOMAIN NoContextSignals \ {"present"} |->
                      statedMerge(deckConfig.defaultContextSignals,
                                  sessionContext.contextSignals, f)]
    IN  /\ merged.R_target = IF sessionContext.R_target # Undefined
                               THEN sessionContext.R_target
                             ELSE deckConfig.defaultRetentionTarget
        /\ merged.scheduler = IF sessionContext.scheduler # <<>>
                                THEN sessionContext.scheduler[1]
                              ELSE IF deckConfig.defaultScheduler # <<>>
                                THEN deckConfig.defaultScheduler[1]
                              ELSE calls[i].in.defaultScheduler
        /\ IF \A f \in RequiredSignals : signals[f] # Undefined
             THEN /\ merged.retentionSignals.present
                  /\ \A f \in DOMAIN signals : merged.retentionSignals[f] = signals[f]
           ELSE ~merged.retentionSignals.present
        /\ IF \E f \in DOMAIN context : context[f] # Undefined
             THEN /\ merged.contextSignals.present
                  /\ \A f \in DOMAIN context : merged.contextSignals[f] = context[f]
           ELSE TRUE

\* C25 for session contexts none of whose keys holds undefined
C25_WithoutUndefinedKeys ==
  \A i \in CallsOf("mergePolicyContext") :
    (\A f \in DOMAIN NoRetentionSignals \ {"present"} :
        calls[i].in.sessionContext.retentionSignals[f] # ExplicitUndefined)
    /\ (\A f \in DOMAIN NoContextSignals \ {"present"} :
        calls[i].in.sessionContext.contextSignals[f] # ExplicitUndefined)
    => C25_RuntimeOverDeckDefaults

C26_HardAndEasyDiffer ==
  \A i \in Completed, j \in Completed :
    (/\ SameExcept(runs[i].in, runs[j].in, {"grade"})
     /\ runs[i].in.S = Days(10)
     /\ runs[i].in.grade \in {"Hard", "Easy"} /\ runs[j].in.grade = "Good")
    => runs[i].out.S_new # runs[j].out.S_new

\* C27: a card's reviewCount is the number of successful processReview
\* calls on it since it was last added. addCard sets the count to 0 and
\* lastReviewed to undefined; a successful processReview of the card at now
\* raises the count by exactly 1 and sets lastReviewed to now; a step that
\* changes the count or lastReviewed of a card is an addCard, a removeCard
\* or a successful processReview of that card, so getNextReview,
\* updateStatistics and the operations on other cards change neither. The
\* second part is stated from the other end: a step after which the count
\* is not one higher or lastReviewed is not now is no successful
\* processReview of the card at now.
C27_ReviewCountCountsReviews ==
  [][\A cardId \in CardIds :
       LET before == deck.cards[cardId]
           after == deck'.cards[cardId]
       IN  /\ Adds(cardId) => after.reviewCount = 0 /\ after.lastReviewed = Undefined
           /\ \A now \in QueueClock :
                (/\ ReviewedOnly(cardId)
                 /\ ~ (/\ after.reviewCount = before.reviewCount + 1
                       /\ after.lastReviewed = now))
                => ~ Reviews(cardId, now)
           /\ (\/ after.reviewCount # before.reviewCount
               \/ after.lastReviewed # before.lastReviewed)
              => \/ Adds(cardId)
                 \/ RemoveCard(cardId)
                 \/ \E now \in QueueClock : Reviewed(cardId, now)]_vars

\* a card reviewed twice since it was added, the second time at the later
\* clock reading
C27_Witness ==
  \E cardId \in CardIds :
    /\ deck.cards[cardId].present
    /\ deck.cards[cardId].reviewCount = 2
    /\ deck.cards[cardId].lastReviewed = Days(101)

\* C28: queues enforce daily caps. A queue whose dailyCap is positive never
\* returns more than dailyCap cards from getNext, whatever the limit.
C28_DailyCapEnforced ==
  (deck.dailyCap # Undefined /\ deck.dailyCap > 0) => Len(deck.selected) <= deck.dailyCap

\* what enforceDailyCap makes of the same selection when it is called
C28_CapHoldsWhenCalled ==
  (deck.dailyCap # Undefined /\ deck.dailyCap > 0)
    => Len(enforceDailyCap(deck.selected, deck.dailyCap)) <= deck.dailyCap

\* C29: a review session only presents due cards. Every card getNextReview
\* returns is due at the clock reading of the call, and the selection is
\* empty when no card of the deck is due.
C29_OnlyDueCardsSelected ==
  [][\A limit \in QueueLimits, now \in QueueClock :
       Selects(limit, now) =>
         /\ \A i \in 1 .. Len(deck'.selected) : isDue(deck.cards[deck'.selected[i]], now)
         /\ (\A id \in deck.queue : ~isDue(deck.cards[id], now)) => deck'.selected = <<>>]_vars

====
